---- MODULE Spec2Model ----
(***************************************************************************)
(* Pricing-aggregation core of the DEX aggregator: PricingHelper           *)
(* (src/unnamed/part_000) fanning out getPoolPrices / getPoolIdentifiers   *)
(* over the adapters of src/src/dex.                                        *)
(*                                                                         *)
(* One pricing request is in flight at a time.  It occupies one "slot" per *)
(* entry of dexKeys (the async callback of dexKeys.map).  The synchronous  *)
(* prefix of every callback runs inside the call itself; afterwards each   *)
(* pending slot is settled either by its adapter or by its timer, and the  *)
(* continuation after `await Promise.all` builds the result.               *)
(*                                                                         *)
(* A behaviour is either one pricing request, one synchronous registry     *)
(* lookup (getDexByKey, getDexsSupportingFeeOnTransfer), or a series of    *)
(* initialize / releaseResources calls, each key of which starts a retry   *)
(* chain (initializeDex / releaseDexResources and the timers they set).    *)
(* LifeSpec is the lifecycle part alone, with the fairness of the event    *)
(* loop: an awaited adapter call settles and a timer that is set fires.    *)
(*                                                                         *)
(* A behaviour can also be one call of optimizeRate or of an adapter's own *)
(* method: the constant-product prices of BabydogeSwap (computed on        *)
(* integers of unbounded width, as bigint is), BabydogeSwap.getPricesVolume *)
(* and VirtuSwap.getPoolIdentifiers / getPricesVolume over pool states     *)
(* that carry the block they were set at.  DexSpec is that part alone.     *)
(* It also holds the series an adapter's own state lives through: findPair *)
(* calls on the pair cache, the logs an event pool processes after its     *)
(* warm-up, and VirtuSwap.addPool calls interleaved with the settling of   *)
(* the initialize they await; and the quotes of SDai.                      *)
(***************************************************************************)
EXTENDS Integers, Sequences, FiniteSets, TLC

VARIABLES
  op,             \* "idle" | "prices" | "identifiers" | "getDexByKey" |
                  \* "getDexsSupportingFeeOnTransfer" | "lifecycle" | "optimizeRate" |
                  \* the name of an adapter method: what the behaviour runs
  req,            \* the arguments of the call in flight
  slots,          \* one record per entry of dexKeys (per map callback)
  outOfOrder,     \* some callback settled while one of a lower index was pending
  aggregate,      \* "none" | "pending" | "resolved" | "rejected": the returned promise
  pricesResult,   \* value getPoolPrices resolved with
  idsResult,      \* value getPoolIdentifiers resolved with
  returned,       \* what a synchronous call (getDexByKey, getDexsSupportingFeeOnTransfer) returned or threw
  calls,          \* the initialize / releaseResources calls made so far
  chains          \* one record per initializeDex / releaseDexResources retry chain

vars == <<op, req, slots, outOfOrder, aggregate, pricesResult, idsResult,
          returned, calls, chains>>

---------------------------------------------------------------------------
(* Bounds and catalogues of inputs *)

MaxKeys == 2

\* lifecycle: calls of initialize / releaseResources, failures of one chain
MaxCalls == 2
MaxFailures == 1

\* length of the list getAllDexKeys returns
MaxAllKeys == 3

\* ratio = rollupL1ToL2GasRatio * RatioDen (the code takes a float)
RatioDen == 100000

PoolGasCost == 100000
CalldataGas == 50000

Range(s) == {s[i] : i \in DOMAIN s}

Undefined == "undefined"
Null == [null |-> TRUE]
Undef == [undef |-> TRUE]
IsList(x) == "list" \in DOMAIN x
IsNull(x) == "null" \in DOMAIN x

---------------------------------------------------------------------------
(* Adapter registry *)

RegisteredKeys == {"BabydogeSwap", "SDai", "VirtuSwap", "PharaohV1"}

\* the keys pricing requests are drawn from
AllKeys == {"BabydogeSwap", "SDai", "Unknown"}

InvalidDexKeyMessage == "Invalid Dex Key"

\* dexAdapterService.getDexByKey(key) throws for a key it does not hold
getDexByKeyThrows(key) == key \notin RegisteredKeys

hasConstantPriceLargeAmounts(key) == key = "SDai"

isFeeOnTransferSupported(key) == key = "BabydogeSwap"

---------------------------------------------------------------------------
(* Request inputs *)

KeyLists == UNION {[1..n -> AllKeys] : n \in 0..MaxKeys}

TokenPairs == {<<"DAI", "DAI">>, <<"DAI", "SDAI">>}

AmountLists == {<<1>>, <<0, 1>>}

NoFees == [srcFee |-> 0, destFee |-> 0, srcDexFee |-> 0, destDexFee |-> 0]

TransferFeeChoices ==
  { NoFees,
    [srcFee |-> 50, destFee |-> 0, srcDexFee |-> 0, destDexFee |-> 0],
    [srcFee |-> 0, destFee |-> 50, srcDexFee |-> 30, destDexFee |-> 0] }

LimitPoolsMaps ==
  { Null,
    [map |-> ("SDai" :> [list |-> <<>>])],
    [map |-> ("BabydogeSwap" :> Null @@ "SDai" :> [list |-> <<"p1">>]
              @@ "Unknown" :> [list |-> <<>>])] }

\* no ratio, 0.3 and 0.30001 (a product with getCalldataGasCost that is not whole)
Ratios == {0, 30000, 30001}

isSrcTokenTransferFeeToBeExchanged(transferFees) ==
  transferFees.srcFee > 0 \/ transferFees.srcDexFee > 0

\* limitPoolsMap ? limitPoolsMap[key] : null
LimitPoolsOf(limitPoolsMap, key) ==
  IF IsNull(limitPoolsMap) THEN Null
  ELSE IF key \notin DOMAIN limitPoolsMap.map THEN Undef
  ELSE limitPoolsMap.map[key]

---------------------------------------------------------------------------
(* Quotes an adapter may resolve with *)

NullPrices == Null

Quote(id, wellFormed, prices, gasCost) ==
  [poolIdentifier |-> id, hasPrices |-> wellFormed, prices |-> prices,
   gasCost |-> gasCost, gasCostL2 |-> Undef]

Zeros(n) == [i \in 1..n |-> 0]

GoodQuote(id, amounts) == Quote(id, TRUE, amounts, [num |-> PoolGasCost])
ZeroQuote(id, amounts) == Quote(id, TRUE, Zeros(Len(amounts)), [num |-> PoolGasCost])
MalformedQuote(id) == Quote(id, FALSE, <<>>, [num |-> PoolGasCost])
SeqGasQuote(id, amounts) ==
  Quote(id, TRUE, amounts,
        [arr |-> [i \in 1..Len(amounts) |-> IF amounts[i] = 0 THEN 0 ELSE PoolGasCost]])

\* quotes the validation pass has to look at: a prices array of the wrong
\* length, a gasCost array that charges for every amount (also the zero ones), a
\* gasCost array of the wrong length, prices that are not 0 where the amount is
ShortPricesQuote(id, amounts) ==
  Quote(id, TRUE, [i \in 1..(Len(amounts) - 1) |-> 1], [num |-> PoolGasCost])
ChargedGasQuote(id, amounts) ==
  Quote(id, TRUE, amounts, [arr |-> [i \in 1..Len(amounts) |-> PoolGasCost]])
ShortGasQuote(id, amounts) ==
  Quote(id, TRUE, amounts, [arr |-> [i \in 1..(Len(amounts) - 1) |-> PoolGasCost]])
NonZeroPriceQuote(id, amounts) ==
  Quote(id, TRUE, [i \in 1..Len(amounts) |-> 7], [num |-> PoolGasCost])

\* what an invoked adapter may do: getPricesVolume resolves with null or a list
\* of PoolPrices, and getCalldataGasCost answers with a number ("num"), an array
\* aligned to amounts ("arr") or a shorter array ("short")
AdapterAnswers(amounts) ==
  { [resolved |-> Null, l1 |-> "num"],
    [resolved |-> [list |-> <<>>], l1 |-> "num"],
    [resolved |-> [list |-> <<GoodQuote("p1", amounts), GoodQuote("p2", amounts)>>],
     l1 |-> "num"],
    [resolved |-> [list |-> <<GoodQuote("p1", amounts), GoodQuote("p2", amounts)>>],
     l1 |-> "arr"],
    [resolved |-> [list |-> <<ZeroQuote("p1", amounts), GoodQuote("p2", amounts)>>],
     l1 |-> "num"],
    [resolved |-> [list |-> <<ZeroQuote("p1", amounts)>>], l1 |-> "num"],
    [resolved |-> [list |-> <<MalformedQuote("p1")>>], l1 |-> "num"],
    [resolved |-> [list |-> <<SeqGasQuote(Undefined, amounts)>>], l1 |-> "num"],
    [resolved |-> [list |-> <<SeqGasQuote(Undefined, amounts)>>], l1 |-> "arr"],
    [resolved |-> [list |-> <<SeqGasQuote(Undefined, amounts)>>], l1 |-> "short"],
    [resolved |-> [list |-> <<ShortPricesQuote("p1", amounts), ChargedGasQuote("p2", amounts),
                              ShortGasQuote("p3", amounts), GoodQuote("p4", amounts)>>],
     l1 |-> "num"],
    [resolved |-> [list |-> <<GoodQuote("p1", amounts), SeqGasQuote("p2", amounts)>>],
     l1 |-> "num"],
    [resolved |-> [list |-> <<ShortGasQuote("p1", amounts)>>], l1 |-> "short"],
    [resolved |-> [list |-> <<NonZeroPriceQuote("p1", amounts)>>], l1 |-> "num"] }

\* values a rejected adapter promise may carry: an Error, a non-Error value,
\* null / undefined
Rejections == { [error |-> "boom"], [value |-> "boom"], [nullish |-> TRUE] }

---------------------------------------------------------------------------
(* getPoolPrices: the pure steps of one callback *)

Envelope(dexKey, poolId, prices, slot, idx) ==
  [dexKey |-> dexKey, poolId |-> poolId, prices |-> prices,
   slot |-> slot, idx |-> idx]   \* slot, idx: where the envelope came from

\* toImprovedPoolPrices(dexKey, poolPrices)
toImprovedPoolPrices(dexKey, poolPrices, slot) ==
  IF IsNull(poolPrices) \/ Len(poolPrices.list) = 0
    THEN <<Envelope(dexKey, "", NullPrices, slot, 1)>>
    ELSE [j \in 1..Len(poolPrices.list) |->
            LET pp == poolPrices.list[j]
            IN Envelope(dexKey,
                        IF pp.poolIdentifier = Undefined THEN "" ELSE pp.poolIdentifier,
                        pp, slot, j)]

\* resolve([{dexKey: key, poolId: 'isSrcTokenTransferFeeToBeExchanged_pool', prices: null}])
FeeOnTransferEnvelope(key, slot) ==
  <<Envelope(key, "isSrcTokenTransferFeeToBeExchanged_pool", NullPrices, slot, 1)>>

\* reject(new Error(`Timeout`))
TimeoutError == [error |-> "Timeout"]

\* the catch block evaluates (e as Error).message: a TypeError for null/undefined
CatchThrows(e) == "nullish" \in DOMAIN e

\* Faulty variant: the catch block labels every failure 'Error_getPoolPrices'
CatchEnvelopeFixedId(key, e, slot) ==
  <<Envelope(key, "Error_getPoolPrices", NullPrices, slot, 1)>>

\* Faulty variant: the catch block returns no envelope
CatchEnvelopeNone(key, e, slot) == <<>>

\* the catch block's return value
CatchEnvelope(key, e, slot) ==
  <<Envelope(key,
             IF "error" \in DOMAIN e THEN e.error ELSE "Error_getPoolPrices",
             NullPrices, slot, 1)>>

\* dexInstance.getCalldataGasCost(pp.prices): a number or an array
getCalldataGasCost(l1Kind, amounts) ==
  CASE l1Kind = "num" -> [num |-> CalldataGas]
    [] l1Kind = "arr" -> [arr |-> [i \in 1..Len(amounts) |-> CalldataGas]]
    [] OTHER -> [arr |-> [i \in 1..(Len(amounts) - 1) |-> CalldataGas]]

\* Faulty variant: the product is rounded down
CeilRatioFloor(ratio, gasCostL1) == (ratio * gasCostL1) \div RatioDen

\* Math.ceil(rollupL1ToL2GasRatio * gasCostL1)
CeilRatio(ratio, gasCostL1) == (ratio * gasCostL1 + RatioDen - 1) \div RatioDen

WrongLengthMessage(key) ==
  CASE key = "BabydogeSwap" -> "getCalldataGasCost returned wrong array length in dex BabydogeSwap"
    [] key = "SDai" -> "getCalldataGasCost returned wrong array length in dex SDai"
    [] OTHER -> "getCalldataGasCost returned wrong array length in dex Unknown"

WrongTypeMessage(key) ==
  CASE key = "BabydogeSwap" -> "getCalldataGasCost returned wrong type in dex BabydogeSwap"
    [] key = "SDai" -> "getCalldataGasCost returned wrong type in dex SDai"
    [] OTHER -> "getCalldataGasCost returned wrong type in dex Unknown"

\* Faulty variant: a pool whose gasCost and calldata cost differ in kind is passed on
\* as it is instead of failing the batch
RollupOneSkipMixed(pp, key, ratio, gasCostL1) ==
  IF IsNull(pp.prices) THEN [ok |-> pp]
  ELSE LET g == pp.prices.gasCost
       IN IF "num" \in DOMAIN g /\ "num" \in DOMAIN gasCostL1
            THEN [ok |-> [pp EXCEPT !.prices.gasCostL2 = g,
                                    !.prices.gasCost =
                                       [num |-> g.num + CeilRatio(ratio, gasCostL1.num)]]]
          ELSE IF "arr" \in DOMAIN g /\ "arr" \in DOMAIN gasCostL1
            THEN IF Len(g.arr) # Len(gasCostL1.arr)
                   THEN [thrown |-> [error |-> WrongLengthMessage(key)]]
                   ELSE [ok |-> [pp EXCEPT !.prices.gasCostL2 = g,
                                           !.prices.gasCost =
                                              [arr |-> [i \in 1..Len(g.arr) |->
                                                 g.arr[i] + CeilRatio(ratio, gasCostL1.arr[i])]]]]
          ELSE [ok |-> [pp EXCEPT !.prices.gasCostL2 = g]]

\* Faulty variant: two arrays of different lengths are not an error
RollupOneNoLengthCheck(pp, key, ratio, gasCostL1) ==
  IF IsNull(pp.prices) THEN [ok |-> pp]
  ELSE LET g == pp.prices.gasCost
       IN IF "num" \in DOMAIN g /\ "num" \in DOMAIN gasCostL1
            THEN [ok |-> [pp EXCEPT !.prices.gasCostL2 = g,
                                    !.prices.gasCost =
                                       [num |-> g.num + CeilRatio(ratio, gasCostL1.num)]]]
          ELSE IF "arr" \in DOMAIN g /\ "arr" \in DOMAIN gasCostL1
            THEN IF Len(g.arr) # Len(gasCostL1.arr)
                   THEN [ok |-> [pp EXCEPT !.prices.gasCostL2 = g]]
                   ELSE [ok |-> [pp EXCEPT !.prices.gasCostL2 = g,
                                           !.prices.gasCost =
                                              [arr |-> [i \in 1..Len(g.arr) |->
                                                 g.arr[i] + CeilRatio(ratio, gasCostL1.arr[i])]]]]
          ELSE [thrown |-> [error |-> WrongTypeMessage(key)]]

\* the body of improvedPrices.map(pp => ...): [ok |-> pp'] or [thrown |-> e]
RollupOne(pp, key, ratio, gasCostL1) ==
  IF IsNull(pp.prices) THEN [ok |-> pp]
  ELSE LET g == pp.prices.gasCost
       IN IF "num" \in DOMAIN g /\ "num" \in DOMAIN gasCostL1
            THEN [ok |-> [pp EXCEPT !.prices.gasCostL2 = g,
                                    !.prices.gasCost =
                                       [num |-> g.num + CeilRatio(ratio, gasCostL1.num)]]]
          ELSE IF "arr" \in DOMAIN g /\ "arr" \in DOMAIN gasCostL1
            THEN IF Len(g.arr) # Len(gasCostL1.arr)
                   THEN [thrown |-> [error |-> WrongLengthMessage(key)]]
                   ELSE [ok |-> [pp EXCEPT !.prices.gasCostL2 = g,
                                           !.prices.gasCost =
                                              [arr |-> [i \in 1..Len(g.arr) |->
                                                 g.arr[i] + CeilRatio(ratio, gasCostL1.arr[i])]]]]
          ELSE [thrown |-> [error |-> WrongTypeMessage(key)]]

\* the .then handler of getPricesVolume: [ok |-> envelopes] (resolve) or
\* [thrown |-> e] (reject(e))
ThenHandler(key, poolPrices, slot, ratio, l1Kind, amounts) ==
  LET improvedPrices == toImprovedPoolPrices(key, poolPrices, slot)
      mapped == [j \in 1..Len(improvedPrices) |->
                   RollupOne(improvedPrices[j], key, ratio,
                             getCalldataGasCost(l1Kind, amounts))]
      bad == {j \in 1..Len(improvedPrices) : "thrown" \in DOMAIN mapped[j]}
  IN IF ratio = 0 THEN [ok |-> improvedPrices]
     ELSE IF bad # {}
       THEN [thrown |-> mapped[CHOOSE j \in bad : \A k \in bad : j <= k].thrown]
       ELSE [ok |-> [j \in 1..Len(improvedPrices) |-> mapped[j].ok]]

---------------------------------------------------------------------------
(* getPoolPrices: the validation pass *)

\* p.prices.prices.length on a quote without a prices array: a TypeError
FilterThrows(p) == ~IsNull(p.prices) /\ ~p.prices.hasPrices

\* Faulty variant: the gasCost array is not looked at
PassesValidationNoGasCheck(p, amounts) ==
  \/ IsNull(p.prices)
  \/ /\ Len(p.prices.prices) = Len(amounts)
     /\ ~(\A i \in 1..Len(p.prices.prices) : p.prices.prices[i] = 0)

\* Faulty variant: quotes whose prices are all 0 are kept
PassesValidationKeepZeros(p, amounts) ==
  \/ IsNull(p.prices)
  \/ /\ Len(p.prices.prices) = Len(amounts)
     /\ \/ "num" \in DOMAIN p.prices.gasCost
        \/ /\ Len(p.prices.gasCost.arr) = Len(amounts)
           /\ \A i \in 1..Len(amounts) :
                 amounts[i] = 0 => p.prices.gasCost.arr[i] = 0

\* the predicate of .filter(p => ...)
PassesValidation(p, amounts) ==
  \/ IsNull(p.prices)
  \/ /\ Len(p.prices.prices) = Len(amounts)
     /\ \/ "num" \in DOMAIN p.prices.gasCost
        \/ /\ Len(p.prices.gasCost.arr) = Len(amounts)
           /\ \A i \in 1..Len(amounts) :
                 amounts[i] = 0 => p.prices.gasCost.arr[i] = 0
     /\ ~(\A i \in 1..Len(p.prices.prices) : p.prices.prices[i] = 0)

RECURSIVE FlatReversed(_, _)
\* Faulty variant: later callbacks' envelopes are put first
FlatReversed(contribs, i) ==
  IF i > Len(contribs) THEN <<>> ELSE FlatReversed(contribs, i + 1) \o contribs[i]

RECURSIVE Flat(_, _)
\* dexPoolPrices.flat(), from slot i on
Flat(contribs, i) ==
  IF i > Len(contribs) THEN <<>> ELSE contribs[i] \o Flat(contribs, i + 1)

FilterSeq(s, amounts) == SelectSeq(s, LAMBDA p : PassesValidation(p, amounts))

---------------------------------------------------------------------------
(* Slots: one per callback of dexKeys.map *)

NoOutcome == [none |-> TRUE]
NoArg == [notCalled |-> TRUE]

Slot(status, dexPoolPrices, poolIdentifiers, lookedUp, invoked, limitArg) ==
  [status |-> status,                 \* "skipped" | "pending" | "settled" | "timedout" | "threw"
   dexPoolPrices |-> dexPoolPrices,   \* what the getPoolPrices callback returned
   poolIdentifiers |-> poolIdentifiers, \* what the getPoolIdentifiers callback returned
   outcome |-> NoOutcome,             \* how the adapter's promise settled before the timer
   lookedUp |-> lookedUp,             \* getDexByKey was called
   invoked |-> invoked,               \* the adapter method was called
   limitArg |-> limitArg,             \* the limitPools argument it was called with
   late |-> FALSE]                    \* the abandoned adapter call settled after the timer

\* the adapters of src/ return before their first await when from == to
SameToken(r) == r.from = r.to

\* Faulty variant: the transfer-fee gate is missing
SyncPricesNoFeeCheck(i, r) ==
  LET key == r.dexKeys[i]
      limitPools == LimitPoolsOf(r.limitPoolsMap, key)
  IN IF IsList(limitPools) /\ Len(limitPools.list) = 0
       THEN Slot("skipped", <<>>, Null, FALSE, FALSE, NoArg)
     ELSE IF getDexByKeyThrows(key)
       THEN Slot("settled", CatchEnvelope(key, [error |-> InvalidDexKeyMessage], i),
                 Null, TRUE, FALSE, NoArg)
     ELSE Slot("pending", <<>>, Null, TRUE, TRUE,
               IF IsList(limitPools) THEN limitPools ELSE Undef)

\* Faulty variant: the empty-limitPools test comes after the registry lookup, and a
\* null / missing entry is passed on as it is
SyncPricesLimitLate(i, r) ==
  LET key == r.dexKeys[i]
      limitPools == LimitPoolsOf(r.limitPoolsMap, key)
  IN IF getDexByKeyThrows(key)
       THEN Slot("settled", CatchEnvelope(key, [error |-> InvalidDexKeyMessage], i),
                 Null, TRUE, FALSE, NoArg)
     ELSE IF IsList(limitPools) /\ Len(limitPools.list) = 0
       THEN Slot("skipped", <<>>, Null, TRUE, FALSE, NoArg)
     ELSE IF isSrcTokenTransferFeeToBeExchanged(r.transferFees)
             /\ ~isFeeOnTransferSupported(key)
       THEN Slot("settled", FeeOnTransferEnvelope(key, i), Null, TRUE, FALSE, NoArg)
     ELSE Slot("pending", <<>>, Null, TRUE, TRUE, limitPools)

\* the synchronous prefix of the getPoolPrices callback for dexKeys[i]
SyncPrices(i, r) ==
  LET key == r.dexKeys[i]
      limitPools == LimitPoolsOf(r.limitPoolsMap, key)
  IN IF IsList(limitPools) /\ Len(limitPools.list) = 0
       THEN Slot("skipped", <<>>, Null, FALSE, FALSE, NoArg)
     ELSE IF getDexByKeyThrows(key)
       THEN Slot("settled", CatchEnvelope(key, [error |-> InvalidDexKeyMessage], i),
                 Null, TRUE, FALSE, NoArg)
     ELSE IF isSrcTokenTransferFeeToBeExchanged(r.transferFees)
             /\ ~isFeeOnTransferSupported(key)
       THEN Slot("settled", FeeOnTransferEnvelope(key, i), Null, TRUE, FALSE, NoArg)
     ELSE Slot("pending", <<>>, Null, TRUE, TRUE,
               IF IsList(limitPools) THEN limitPools ELSE Undef)

\* Faulty variant: the adapters price a pair of identical tokens like any other pair
PriceOutcomesAnyPair(r) ==
  {a \in AdapterAnswers(r.amounts) : r.rollupL1ToL2GasRatio = 0 => a.l1 = "num"}
  \cup {[rejected |-> e] : e \in Rejections}

\* values the adapter's getPricesVolume promise may settle with
PriceOutcomes(r) ==
  IF SameToken(r) THEN {[resolved |-> Null, l1 |-> "num"]}
  ELSE {a \in AdapterAnswers(r.amounts) :
          r.rollupL1ToL2GasRatio = 0 => a.l1 = "num"}
       \cup {[rejected |-> e] : e \in Rejections}

\* what the callback does once the inner promise rejected with e
Caught(key, e, slot, s) ==
  IF CatchThrows(e)
    THEN [s EXCEPT !.status = "threw"]
    ELSE [s EXCEPT !.status = "settled", !.dexPoolPrices = CatchEnvelope(key, e, slot)]

\* the callback's slot once the adapter promise settled with outcome o
SettledPrices(i, r, o, s) ==
  LET key == r.dexKeys[i]
      so == [s EXCEPT !.outcome = o]
  IN IF "rejected" \in DOMAIN o THEN Caught(key, o.rejected, i, so)
     ELSE LET h == ThenHandler(key, o.resolved, i, r.rollupL1ToL2GasRatio,
                               o.l1, r.amounts)
          IN IF "thrown" \in DOMAIN h THEN Caught(key, h.thrown, i, so)
             ELSE [so EXCEPT !.status = "settled", !.dexPoolPrices = h.ok]

\* how an abandoned adapter call may still settle
LateOutcomes == {[resolved |-> Null, l1 |-> "num"], [rejected |-> [error |-> "boom"]]}

\* Faulty variant: a late settlement replaces what the callback returned
AfterAbandonedOverwrites(s, o) ==
  IF s.dexPoolPrices = <<>> THEN [s EXCEPT !.late = TRUE]
  ELSE LET key == s.dexPoolPrices[1].dexKey
           slot == s.dexPoolPrices[1].slot
       IN [s EXCEPT !.late = TRUE,
                    !.dexPoolPrices =
                       IF "rejected" \in DOMAIN o
                         THEN CatchEnvelope(key, o.rejected, slot)
                         ELSE toImprovedPoolPrices(key, o.resolved, slot)]

\* resolve / reject on the promise the timer already rejected: no effect
AfterAbandoned(s, o) == [s EXCEPT !.late = TRUE]

\* slot i settles now: is a callback of a lower index still pending?
Overtakes(i) == \E j \in 1..(i - 1) : slots[j].status = "pending"

---------------------------------------------------------------------------
(* getPoolPrices *)

NoRequest ==
  [from |-> "DAI", to |-> "DAI", amounts |-> <<>>, dexKeys |-> <<>>,
   limitPoolsMap |-> Null, transferFees |-> NoFees,
   rollupL1ToL2GasRatio |-> 0, filterConstantPricePool |-> FALSE]

Init ==
  /\ op = "idle"
  /\ req = NoRequest
  /\ slots = <<>>
  /\ outOfOrder = FALSE
  /\ aggregate = "none"
  /\ pricesResult = <<>>
  /\ idsResult = [k \in {} |-> Null]
  /\ returned = NoOutcome
  /\ calls = <<>>
  /\ chains = <<>>

CallGetPoolPrices ==
  /\ op = "idle"
  /\ \E keys \in KeyLists, pair \in TokenPairs, amounts \in AmountLists,
        lpm \in LimitPoolsMaps, fees \in TransferFeeChoices, ratio \in Ratios :
       LET r == [from |-> pair[1], to |-> pair[2], amounts |-> amounts,
                 dexKeys |-> keys, limitPoolsMap |-> lpm, transferFees |-> fees,
                 rollupL1ToL2GasRatio |-> ratio, filterConstantPricePool |-> FALSE]
           ss == [i \in 1..Len(keys) |-> SyncPrices(i, r)]
       IN /\ req' = r
          /\ slots' = ss
          /\ outOfOrder' = \E i, j \in 1..Len(keys) :
                               i < j /\ ss[i].status = "pending" /\ ss[j].status # "pending"
  /\ op' = "prices"
  /\ aggregate' = "pending"
  /\ UNCHANGED <<pricesResult, idsResult, returned, calls, chains>>

\* the adapter's getPricesVolume promise settles before the timer fires
SettlePrices(i) ==
  /\ op = "prices" /\ aggregate = "pending"
  /\ slots[i].status = "pending"
  /\ \E o \in PriceOutcomes(req) :
       LET s == SettledPrices(i, req, o, slots[i])
       IN /\ slots' = [slots EXCEPT ![i] = s]
          /\ aggregate' = IF s.status = "threw" THEN "rejected" ELSE aggregate
  /\ outOfOrder' = (outOfOrder \/ Overtakes(i))
  /\ UNCHANGED <<op, req, pricesResult, idsResult, returned, calls, chains>>

\* the FETCH_POOL_PRICES_TIMEOUT timer fires first: reject(new Error('Timeout'))
TimerFiresPrices(i) ==
  /\ op = "prices" /\ aggregate = "pending"
  /\ slots[i].status = "pending"
  /\ ~SameToken(req)
  /\ slots' = [slots EXCEPT ![i] =
                 [Caught(req.dexKeys[i], TimeoutError, i, slots[i])
                    EXCEPT !.status = "timedout"]]
  /\ outOfOrder' = (outOfOrder \/ Overtakes(i))
  /\ UNCHANGED <<op, req, aggregate, pricesResult, idsResult, returned, calls, chains>>

\* the abandoned adapter call settles after its timer fired
LateSettle(i) ==
  /\ op \in {"prices", "identifiers"}
  /\ slots[i].status = "timedout" /\ ~slots[i].late
  /\ \E o \in LateOutcomes :
       slots' = [slots EXCEPT ![i] = AfterAbandoned(slots[i], o)]
  /\ UNCHANGED <<op, req, outOfOrder, aggregate, pricesResult, idsResult, returned, calls, chains>>

\* the continuation after `await Promise.all(...)`: flat() and filter()
CompletePrices ==
  /\ op = "prices" /\ aggregate = "pending"
  /\ \A i \in DOMAIN slots : slots[i].status \in {"skipped", "settled", "timedout"}
  /\ LET flat == Flat([i \in DOMAIN slots |-> slots[i].dexPoolPrices], 1)
     IN IF \E j \in DOMAIN flat : FilterThrows(flat[j])
          THEN /\ aggregate' = "rejected"
               /\ UNCHANGED pricesResult
          ELSE /\ aggregate' = "resolved"
               /\ pricesResult' = FilterSeq(flat, req.amounts)
  /\ UNCHANGED <<op, req, slots, outOfOrder, idsResult, returned, calls, chains>>

---------------------------------------------------------------------------
(* getPoolIdentifiers *)

IdLists == { <<>>, <<"p1">>, <<"p1", "p2">> }

\* the catch block of the getPoolIdentifiers callback: return []
IdsCaught == [list |-> <<>>]

\* Faulty variant: a constant-price adapter opts out whatever the flag says
SyncIdsAlwaysFilter(i, r) ==
  LET key == r.dexKeys[i]
  IN IF getDexByKeyThrows(key)
       THEN Slot("settled", <<>>, IdsCaught, TRUE, FALSE, NoArg)
     ELSE IF hasConstantPriceLargeAmounts(key)
       THEN Slot("settled", <<>>, Null, TRUE, FALSE, NoArg)
     ELSE Slot("pending", <<>>, Undef, TRUE, TRUE, NoArg)

\* the synchronous prefix of the getPoolIdentifiers callback for dexKeys[i]
SyncIds(i, r) ==
  LET key == r.dexKeys[i]
  IN IF getDexByKeyThrows(key)
       THEN Slot("settled", <<>>, IdsCaught, TRUE, FALSE, NoArg)
     ELSE IF r.filterConstantPricePool /\ hasConstantPriceLargeAmounts(key)
       THEN Slot("settled", <<>>, Null, TRUE, FALSE, NoArg)
     ELSE Slot("pending", <<>>, Undef, TRUE, TRUE, NoArg)

\* values the adapter's getPoolIdentifiers promise may settle with
IdOutcomes(r) ==
  IF SameToken(r) THEN {[resolved |-> [list |-> <<>>]]}
  ELSE {[resolved |-> [list |-> l]] : l \in IdLists}
       \cup {[rejected |-> e] : e \in Rejections}

\* the callback's slot once the adapter promise settled with outcome o
SettledIds(o, s) ==
  [s EXCEPT !.status = "settled", !.outcome = o,
            !.poolIdentifiers =
               IF "rejected" \in DOMAIN o THEN IdsCaught ELSE o.resolved]

RECURSIVE ReduceIdsSkipEmpty(_, _, _, _)
\* Faulty variant: keys whose list is empty get no entry
ReduceIdsSkipEmpty(dexKeys, poolIdentifiers, index, acc) ==
  IF index > Len(dexKeys) THEN acc
  ELSE ReduceIdsSkipEmpty(dexKeys, poolIdentifiers, index + 1,
         IF poolIdentifiers[index] = [list |-> <<>>] THEN acc
         ELSE [k \in DOMAIN acc \cup {dexKeys[index]} |->
                 IF k = dexKeys[index] THEN poolIdentifiers[index] ELSE acc[k]])

RECURSIVE ReduceIds(_, _, _, _)
\* dexKeys.reduce((acc, dexKey, index) => { acc[dexKey] = poolIdentifiers[index] }, {})
ReduceIds(dexKeys, poolIdentifiers, index, acc) ==
  IF index > Len(dexKeys) THEN acc
  ELSE ReduceIds(dexKeys, poolIdentifiers, index + 1,
                 [k \in DOMAIN acc \cup {dexKeys[index]} |->
                    IF k = dexKeys[index] THEN poolIdentifiers[index] ELSE acc[k]])

CallGetPoolIdentifiers ==
  /\ op = "idle"
  /\ \E keys \in KeyLists, pair \in TokenPairs, filter \in BOOLEAN :
       LET r == [NoRequest EXCEPT !.from = pair[1], !.to = pair[2],
                                  !.dexKeys = keys,
                                  !.filterConstantPricePool = filter]
           ss == [i \in 1..Len(keys) |-> SyncIds(i, r)]
       IN /\ req' = r
          /\ slots' = ss
          /\ outOfOrder' = \E i, j \in 1..Len(keys) :
                               i < j /\ ss[i].status = "pending" /\ ss[j].status # "pending"
  /\ op' = "identifiers"
  /\ aggregate' = "pending"
  /\ UNCHANGED <<pricesResult, idsResult, returned, calls, chains>>

\* the adapter's getPoolIdentifiers promise settles before the timer fires
SettleIds(i) ==
  /\ op = "identifiers" /\ aggregate = "pending"
  /\ slots[i].status = "pending"
  /\ \E o \in IdOutcomes(req) :
       slots' = [slots EXCEPT ![i] = SettledIds(o, slots[i])]
  /\ outOfOrder' = (outOfOrder \/ Overtakes(i))
  /\ UNCHANGED <<op, req, aggregate, pricesResult, idsResult, returned, calls, chains>>

\* the FETCH_POOL_IDENTIFIER_TIMEOUT timer fires first: reject(new Error('Timeout'))
TimerFiresIds(i) ==
  /\ op = "identifiers" /\ aggregate = "pending"
  /\ slots[i].status = "pending"
  /\ ~SameToken(req)
  /\ slots' = [slots EXCEPT ![i] =
                 [slots[i] EXCEPT !.status = "timedout", !.poolIdentifiers = IdsCaught]]
  /\ outOfOrder' = (outOfOrder \/ Overtakes(i))
  /\ UNCHANGED <<op, req, aggregate, pricesResult, idsResult, returned, calls, chains>>

\* the continuation after `await Promise.all(...)`: the reduce into a map
CompleteIds ==
  /\ op = "identifiers" /\ aggregate = "pending"
  /\ \A i \in DOMAIN slots : slots[i].status \in {"settled", "timedout"}
  /\ idsResult' = ReduceIds(req.dexKeys,
                            [i \in DOMAIN slots |-> slots[i].poolIdentifiers],
                            1, [k \in {} |-> Null])
  /\ aggregate' = "resolved"
  /\ UNCHANGED <<op, req, slots, outOfOrder, pricesResult, returned, calls, chains>>

---------------------------------------------------------------------------
(* Registry lookups: getDexByKey, getDexsSupportingFeeOnTransfer *)

\* keys a lookup may be asked for; "Faulty" is a key whose lookup fails with an
\* error that is not the invalid-key one
LookupKeys == RegisteredKeys \cup {"Unknown", "Faulty"}

\* this.dexAdapterService.getDexByKey(key): [instance |-> key] or [thrown |-> e]
dexAdapterService_getDexByKey(key) ==
  IF key \in RegisteredKeys THEN [instance |-> key]
  ELSE IF key = "Faulty" THEN [thrown |-> [error |-> "boom"]]
  ELSE [thrown |-> [error |-> InvalidDexKeyMessage]]

\* e instanceof Error && e.message.startsWith('Invalid Dex Key')
IsInvalidDexKey(e) == "error" \in DOMAIN e /\ e.error = InvalidDexKeyMessage

\* Faulty variant: the invalid-key error is passed on to the caller
getDexByKeyRethrows(key) == dexAdapterService_getDexByKey(key)

\* PricingHelper.getDexByKey(key)
getDexByKey(key) ==
  LET r == dexAdapterService_getDexByKey(key)
  IN IF "thrown" \in DOMAIN r /\ IsInvalidDexKey(r.thrown) THEN Null ELSE r

\* dexInstance.isFeeOnTransferSupported; PharaohV1 inherits its flag from a
\* class outside src/
supportsFeeOnTransfer(key, inherited) ==
  IF key = "PharaohV1" THEN inherited ELSE isFeeOnTransferSupported(key)

\* the callback of allDexKeys.map: [key |-> dexKey], undefined, or [thrown |-> e]
FeeOnTransferEntry(dexKey, inherited) ==
  LET r == dexAdapterService_getDexByKey(dexKey)
  IN IF "instance" \in DOMAIN r
       THEN IF supportsFeeOnTransfer(dexKey, inherited) THEN [key |-> dexKey] ELSE Undef
     ELSE IF IsInvalidDexKey(r.thrown) THEN Undef
     ELSE [thrown |-> r.thrown]

\* Faulty variant: every key that can be looked up is returned, whatever its flag
getDexsSupportingFeeOnTransferAnyFlag(allDexKeys, inherited) ==
  LET mapped == [i \in DOMAIN allDexKeys |-> FeeOnTransferEntry(allDexKeys[i], TRUE)]
      bad == {i \in DOMAIN allDexKeys : "thrown" \in DOMAIN mapped[i]}
      kept == SelectSeq(mapped, LAMBDA d : "key" \in DOMAIN d)
  IN IF bad # {}
       THEN [thrown |-> mapped[CHOOSE i \in bad : \A j \in bad : i <= j].thrown]
       ELSE [keys |-> [i \in DOMAIN kept |-> kept[i].key]]

\* PricingHelper.getDexsSupportingFeeOnTransfer(): [keys |-> list] or [thrown |-> e]
getDexsSupportingFeeOnTransfer(allDexKeys, inherited) ==
  LET mapped == [i \in DOMAIN allDexKeys |-> FeeOnTransferEntry(allDexKeys[i], inherited)]
      bad == {i \in DOMAIN allDexKeys : "thrown" \in DOMAIN mapped[i]}
      kept == SelectSeq(mapped, LAMBDA d : "key" \in DOMAIN d)
  IN IF bad # {}
       THEN [thrown |-> mapped[CHOOSE i \in bad : \A j \in bad : i <= j].thrown]
       ELSE [keys |-> [i \in DOMAIN kept |-> kept[i].key]]

\* what this.dexAdapterService.getAllDexKeys() may return
AllDexKeyLists == UNION {[1..n -> LookupKeys] : n \in 0..MaxAllKeys}

CallGetDexByKey ==
  /\ op = "idle"
  /\ \E key \in LookupKeys :
       /\ req' = [NoRequest EXCEPT !.dexKeys = <<key>>]
       /\ returned' = getDexByKey(key)
  /\ op' = "getDexByKey"
  /\ UNCHANGED <<slots, outOfOrder, aggregate, pricesResult, idsResult, calls, chains>>

CallGetDexsSupportingFeeOnTransfer ==
  /\ op = "idle"
  /\ \E allDexKeys \in AllDexKeyLists, inherited \in BOOLEAN :
       /\ req' = [from |-> "DAI", to |-> "DAI", dexKeys |-> allDexKeys,
                  inherited |-> inherited]
       /\ returned' = getDexsSupportingFeeOnTransfer(allDexKeys, inherited)
  /\ op' = "getDexsSupportingFeeOnTransfer"
  /\ UNCHANGED <<slots, outOfOrder, aggregate, pricesResult, idsResult, calls, chains>>

---------------------------------------------------------------------------
(* bigint: integers of unbounded width, as a sign and base-10000 limbs *)

\* the limbs of a magnitude, least significant first, the last one non-zero
LimbBase == 10000

RECURSIVE MagOfNat(_)
MagOfNat(n) == IF n = 0 THEN <<>> ELSE <<n % LimbBase>> \o MagOfNat(n \div LimbBase)

RECURSIVE MagTrim(_)
MagTrim(m) ==
  IF m = <<>> THEN <<>>
  ELSE IF m[Len(m)] = 0 THEN MagTrim(SubSeq(m, 1, Len(m) - 1))
  ELSE m

RECURSIVE MagCmpFrom(_, _, _)
MagCmpFrom(a, b, i) ==
  IF i = 0 THEN 0
  ELSE IF a[i] < b[i] THEN -1
  ELSE IF a[i] > b[i] THEN 1
  ELSE MagCmpFrom(a, b, i - 1)

\* -1, 0 or 1 as a < b, a = b or a > b
MagCmp(a, b) ==
  IF Len(a) < Len(b) THEN -1
  ELSE IF Len(a) > Len(b) THEN 1
  ELSE MagCmpFrom(a, b, Len(a))

RECURSIVE MagAddCarry(_, _, _)
MagAddCarry(a, b, carry) ==
  IF a = <<>> /\ b = <<>> THEN MagOfNat(carry)
  ELSE LET s == (IF a = <<>> THEN 0 ELSE a[1]) + (IF b = <<>> THEN 0 ELSE b[1]) + carry
       IN <<s % LimbBase>>
            \o MagAddCarry(IF a = <<>> THEN <<>> ELSE Tail(a),
                           IF b = <<>> THEN <<>> ELSE Tail(b), s \div LimbBase)

MagAdd(a, b) == MagAddCarry(a, b, 0)

RECURSIVE MagSubBorrow(_, _, _)
MagSubBorrow(a, b, borrow) ==
  IF a = <<>> THEN <<>>
  ELSE LET d == a[1] - (IF b = <<>> THEN 0 ELSE b[1]) - borrow
       IN <<d % LimbBase>>
            \o MagSubBorrow(Tail(a), IF b = <<>> THEN <<>> ELSE Tail(b),
                            IF d < 0 THEN 1 ELSE 0)

\* a - b for a >= b
MagSub(a, b) == MagTrim(MagSubBorrow(a, b, 0))

RECURSIVE MagMulLimb(_, _, _)
MagMulLimb(a, d, carry) ==
  IF a = <<>> THEN MagOfNat(carry)
  ELSE LET p == a[1] * d + carry
       IN <<p % LimbBase>> \o MagMulLimb(Tail(a), d, p \div LimbBase)

RECURSIVE MagMul(_, _)
MagMul(a, b) ==
  IF a = <<>> \/ b = <<>> THEN <<>>
  ELSE LET rest == MagMul(Tail(a), b)
       IN MagAdd(MagTrim(MagMulLimb(b, a[1], 0)),
                 IF rest = <<>> THEN <<>> ELSE <<0>> \o rest)

\* the largest digit q in lo..hi with q * d <= cur
RECURSIVE QuotientLimb(_, _, _, _)
QuotientLimb(cur, d, lo, hi) ==
  IF lo = hi THEN lo
  ELSE LET mid == (lo + hi + 1) \div 2
       IN IF MagCmp(MagTrim(MagMulLimb(d, mid, 0)), cur) <= 0
            THEN QuotientLimb(cur, d, mid, hi)
            ELSE QuotientLimb(cur, d, lo, mid - 1)

\* long division of n by d > 0, limb i of n next: q and r are the quotient
\* and the remainder of the limbs above i
RECURSIVE MagDivModFrom(_, _, _, _, _)
MagDivModFrom(n, d, i, q, r) ==
  IF i = 0 THEN [q |-> q, r |-> r]
  ELSE LET cur == MagTrim(<<n[i]>> \o r)
           digit == QuotientLimb(cur, d, 0, LimbBase - 1)
       IN MagDivModFrom(n, d, i - 1, MagTrim(<<digit>> \o q),
                        MagSub(cur, MagTrim(MagMulLimb(d, digit, 0))))

\* quotient and remainder of n by d > 0
MagDivMod(n, d) == MagDivModFrom(n, d, Len(n), <<>>, <<>>)

\* BigInt(n) for a Number n that is an integer
BigInt(n) == [neg |-> n < 0, mag |-> MagOfNat(IF n < 0 THEN -n ELSE n)]

BigZero == BigInt(0)

BigOne == BigInt(1)

\* -a
BigNeg(a) == IF a.mag = <<>> THEN a ELSE [a EXCEPT !.neg = ~a.neg]

\* a + b
BigAdd(a, b) ==
  IF a.neg = b.neg THEN [neg |-> a.neg, mag |-> MagAdd(a.mag, b.mag)]
  ELSE LET cmp == MagCmp(a.mag, b.mag)
       IN IF cmp = 0 THEN BigZero
          ELSE IF cmp > 0 THEN [neg |-> a.neg, mag |-> MagSub(a.mag, b.mag)]
          ELSE [neg |-> b.neg, mag |-> MagSub(b.mag, a.mag)]

\* a - b
BigSub(a, b) == BigAdd(a, BigNeg(b))

\* a * b
BigMul(a, b) ==
  LET m == MagMul(a.mag, b.mag)
  IN [neg |-> m # <<>> /\ a.neg # b.neg, mag |-> m]

\* a / b for b # 0n: the quotient rounded towards zero
BigDiv(a, b) ==
  LET q == MagDivMod(a.mag, b.mag).q
  IN [neg |-> q # <<>> /\ a.neg # b.neg, mag |-> q]

\* -1, 0 or 1 as a < b, a = b or a > b
BigCmp(a, b) ==
  IF a.neg # b.neg THEN (IF a.neg THEN -1 ELSE 1)
  ELSE IF a.neg THEN MagCmp(b.mag, a.mag)
  ELSE MagCmp(a.mag, b.mag)

\* a ** n for a Number n >= 0
RECURSIVE BigPow(_, _)
BigPow(a, n) ==
  IF n = 0 THEN BigOne
  ELSE LET h == BigPow(a, n \div 2)
       IN IF n % 2 = 0 THEN BigMul(h, h) ELSE BigMul(a, BigMul(h, h))

---------------------------------------------------------------------------
(* BabydogeSwap: constant-product prices *)

MaxPath == 3

\* this.feeFactor
feeFactor == 10000

\* const RESERVE_LIMIT = 2n ** 112n - 1n
RESERVE_LIMIT == BigSub(BigPow(BigInt(2), 112), BigOne)

\* BabydogeSwapPoolOrderedParams: the reserves are decimal strings the code
\* converts with BigInt(), the fee is a decimal string it converts with
\* parseInt() and BigInt()
PriceParams(reservesIn, reservesOut, fee) ==
  [reservesIn |-> reservesIn, reservesOut |-> reservesOut, fee |-> fee]

\* reserves a pair can hold, up to the largest a uint112 holds
ReserveValues ==
  {BigInt(n) : n \in {0, 1, 2, 3, 10, 1000000, 2000000}}
    \cup {BigSub(RESERVE_LIMIT, BigOne), RESERVE_LIMIT}

\* the fee codes of a pair, out of feeFactor
FeeCodes == {0, 30, feeFactor}

\* srcAmount / destAmount
AmountValues == {BigInt(n) : n \in {0, 1, 2, 3, 15, 1000}}

AllPriceParams ==
  {PriceParams(rin, rout, fee) : rin \in ReserveValues, rout \in ReserveValues,
                                 fee \in FeeCodes}

\* Faulty variant: the round-up by one is left out
getBuyPriceNoRoundUp(priceParams, destAmount) ==
  LET numerator == BigMul(BigMul(priceParams.reservesIn, destAmount), BigInt(feeFactor))
      denominator == BigMul(BigSub(BigInt(feeFactor), BigInt(priceParams.fee)),
                            BigSub(priceParams.reservesOut, destAmount))
  IN IF BigCmp(denominator, BigZero) <= 0 THEN BigZero
     ELSE IF numerator = BigZero THEN BigZero
     ELSE BigDiv(numerator, denominator)

\* Faulty variant: a numerator of 0 is rounded up like any other
getBuyPriceNoZeroCheck(priceParams, destAmount) ==
  LET numerator == BigMul(BigMul(priceParams.reservesIn, destAmount), BigInt(feeFactor))
      denominator == BigMul(BigSub(BigInt(feeFactor), BigInt(priceParams.fee)),
                            BigSub(priceParams.reservesOut, destAmount))
  IN IF BigCmp(denominator, BigZero) <= 0 THEN BigZero
     ELSE BigAdd(BigOne, BigDiv(numerator, denominator))

\* BabydogeSwap.getBuyPrice(priceParams, destAmount)
getBuyPrice(priceParams, destAmount) ==
  LET numerator == BigMul(BigMul(priceParams.reservesIn, destAmount), BigInt(feeFactor))
      denominator == BigMul(BigSub(BigInt(feeFactor), BigInt(priceParams.fee)),
                            BigSub(priceParams.reservesOut, destAmount))
  IN IF BigCmp(denominator, BigZero) <= 0 THEN BigZero
     ELSE IF numerator = BigZero THEN BigZero
     ELSE BigAdd(BigOne, BigDiv(numerator, denominator))

\* Faulty variant: the fee is not taken off the amount sold
getSellPriceNoFee(priceParams, srcAmount) ==
  IF BigCmp(BigAdd(priceParams.reservesIn, srcAmount), RESERVE_LIMIT) > 0 THEN BigZero
  ELSE LET amountInWithFee == BigMul(srcAmount, BigInt(feeFactor))
           numerator == BigMul(amountInWithFee, priceParams.reservesOut)
           denominator == BigAdd(BigMul(priceParams.reservesIn, BigInt(feeFactor)),
                                 amountInWithFee)
       IN IF denominator = BigZero THEN BigZero ELSE BigDiv(numerator, denominator)

\* Faulty variant: the reserves are not checked against RESERVE_LIMIT
getSellPriceNoLimit(priceParams, srcAmount) ==
  LET amountInWithFee == BigMul(srcAmount, BigInt(feeFactor - priceParams.fee))
      numerator == BigMul(amountInWithFee, priceParams.reservesOut)
      denominator == BigAdd(BigMul(priceParams.reservesIn, BigInt(feeFactor)),
                            amountInWithFee)
  IN IF denominator = BigZero THEN BigZero ELSE BigDiv(numerator, denominator)

\* BabydogeSwap.getSellPrice(priceParams, srcAmount)
getSellPrice(priceParams, srcAmount) ==
  IF BigCmp(BigAdd(priceParams.reservesIn, srcAmount), RESERVE_LIMIT) > 0 THEN BigZero
  ELSE LET amountInWithFee == BigMul(srcAmount, BigInt(feeFactor - priceParams.fee))
           numerator == BigMul(amountInWithFee, priceParams.reservesOut)
           denominator == BigAdd(BigMul(priceParams.reservesIn, BigInt(feeFactor)),
                                 amountInWithFee)
       IN IF denominator = BigZero THEN BigZero ELSE BigDiv(numerator, denominator)

\* params.reverse()
Reverse(s) == [i \in 1..Len(s) |-> s[Len(s) + 1 - i]]

\* for (const param of list) price = await this.getBuyPrice(param, price), from
\* index i on
RECURSIVE BuyLoop(_, _, _)
BuyLoop(list, i, price) ==
  IF i > Len(list) THEN price
  ELSE BuyLoop(list, i + 1, getBuyPrice(list[i], price))

\* Faulty variant: the path is walked from its first pool
getBuyPricePathForward(amount, params) ==
  [price |-> BuyLoop(params, 1, amount), params |-> params]

\* BabydogeSwap.getBuyPricePath(amount, params): the price, and the array it was
\* given, which reverse() has turned round in place
getBuyPricePath(amount, params) ==
  [price |-> BuyLoop(Reverse(params), 1, amount), params |-> Reverse(params)]

\* for (const param of params) price = await this.getSellPrice(param, price),
\* from index i on
RECURSIVE SellLoop(_, _, _)
SellLoop(params, i, price) ==
  IF i > Len(params) THEN price
  ELSE SellLoop(params, i + 1, getSellPrice(params[i], price))

\* BabydogeSwap.getSellPricePath(amount, params)
getSellPricePath(amount, params) ==
  [price |-> SellLoop(params, 1, amount), params |-> params]

\* the pools a path is made of
PathPools ==
  {PriceParams(BigInt(1000), BigInt(2000), 30),
   PriceParams(BigInt(500), BigInt(100), 0),
   PriceParams(BigInt(40), BigInt(70), 100)}

PathLists == UNION {[1..n -> PathPools] : n \in 1..MaxPath}

PathAmounts == {BigInt(n) : n \in {1, 10, 60}}

AdapterRequest(fields) ==
  [from |-> "DAI", to |-> "DAI", dexKeys |-> <<>>] @@ fields

CallGetSellPrice ==
  /\ op = "idle"
  /\ \E priceParams \in AllPriceParams, srcAmount \in AmountValues :
       /\ req' = AdapterRequest([priceParams |-> priceParams, amount |-> srcAmount])
       /\ returned' = [price |-> getSellPrice(priceParams, srcAmount)]
  /\ op' = "getSellPrice"
  /\ UNCHANGED <<slots, outOfOrder, aggregate, pricesResult, idsResult, calls, chains>>

CallGetBuyPrice ==
  /\ op = "idle"
  /\ \E priceParams \in AllPriceParams, destAmount \in AmountValues :
       /\ req' = AdapterRequest([priceParams |-> priceParams, amount |-> destAmount])
       /\ returned' = [price |-> getBuyPrice(priceParams, destAmount)]
  /\ op' = "getBuyPrice"
  /\ UNCHANGED <<slots, outOfOrder, aggregate, pricesResult, idsResult, calls, chains>>

\* getBuyPrice is asked what the amount getSellPrice returned costs on the
\* same pool
CallGetBuyPriceOfSold ==
  /\ op = "getSellPrice"
  /\ returned' = [sold |-> returned.price,
                  price |-> getBuyPrice(req.priceParams, returned.price)]
  /\ op' = "buyOfSold"
  /\ UNCHANGED <<req, slots, outOfOrder, aggregate, pricesResult, idsResult, calls, chains>>

\* getSellPrice is asked what the amount getBuyPrice returned yields on the
\* same pool
CallGetSellPriceOfBought ==
  /\ op = "getBuyPrice"
  /\ returned' = [bought |-> returned.price,
                  price |-> getSellPrice(req.priceParams, returned.price)]
  /\ op' = "sellOfBought"
  /\ UNCHANGED <<req, slots, outOfOrder, aggregate, pricesResult, idsResult, calls, chains>>

CallGetSellPricePath ==
  /\ op = "idle"
  /\ \E params \in PathLists, amount \in PathAmounts :
       /\ req' = AdapterRequest([params |-> params, amount |-> amount])
       /\ returned' = getSellPricePath(amount, params)
  /\ op' = "getSellPricePath"
  /\ UNCHANGED <<slots, outOfOrder, aggregate, pricesResult, idsResult, calls, chains>>

CallGetBuyPricePath ==
  /\ op = "idle"
  /\ \E params \in PathLists, amount \in PathAmounts :
       /\ req' = AdapterRequest([params |-> params, amount |-> amount])
       /\ returned' = getBuyPricePath(amount, params)
  /\ op' = "getBuyPricePath"
  /\ UNCHANGED <<slots, outOfOrder, aggregate, pricesResult, idsResult, calls, chains>>

\* a second call of getSellPricePath with the same amount and the same array
\* object, as the first call left it
CallGetSellPricePathAgain ==
  /\ op = "getSellPricePath"
  /\ req' = req
  /\ returned' = getSellPricePath(req.amount, returned.params)
                   @@ [first |-> returned.price]
  /\ op' = "getSellPricePath again"
  /\ UNCHANGED <<slots, outOfOrder, aggregate, pricesResult, idsResult, calls, chains>>

\* a second call of getBuyPricePath with the same amount and the same array
\* object, as the first call left it
CallGetBuyPricePathAgain ==
  /\ op = "getBuyPricePath"
  /\ req' = req
  /\ returned' = getBuyPricePath(req.amount, returned.params)
                   @@ [first |-> returned.price]
  /\ op' = "getBuyPricePath again"
  /\ UNCHANGED <<slots, outOfOrder, aggregate, pricesResult, idsResult, calls, chains>>

---------------------------------------------------------------------------
(* Tokens, pool identifiers and the pair cache of BabydogeSwap *)

MaxFindPair == 2

\* An address as the adapters see it: its lowercase spelling, numbered in the
\* order of the lowercase strings, and whether it is given in checksum
\* (mixed) case
Address(lower, checksummed) == [lower |-> lower, checksummed |-> checksummed]

\* String.prototype.toLowerCase on an address
toLowerCase(address) == [address EXCEPT !.checksummed = FALSE]

\* a < b on two lowercase address strings
Below(a, b) == a.lower < b.lower

Token(address) == [address |-> address]

\* the native-token sentinel and the address of its wrapped form
ETHER_ADDRESS == Address(0, FALSE)
WrappedNative == Address(1, TRUE)

isETHAddress(address) == toLowerCase(address) = ETHER_ADDRESS

\* dexHelper.config.wrapETH(token)
wrapETH(token) == IF isETHAddress(token.address) THEN Token(WrappedNative) ELSE token

Tokens == {Token(Address(l, c)) : l \in 0..3, c \in BOOLEAN}

\* the tokens a pair is looked up with: wrapETH has been applied
WrappedTokens == {wrapETH(t) : t \in Tokens}

\* `${dexKey}_${tokenAddress}`, tokenAddress being the addresses joined by '_'
PoolIdentifier(dexKey, addresses) == [dexKey |-> dexKey, tokens |-> addresses]

\* [a, b].sort((a, b) => (a > b ? 1 : -1)) on two different strings
SortAddresses(a, b) == IF Below(b, a) THEN <<b, a>> ELSE <<a, b>>

\* Faulty variant: the addresses are joined in the order given
BabydogeSwap_getPoolIdentifiersUnsorted(_from, _to) ==
  LET from == wrapETH(_from)
      to == wrapETH(_to)
  IN IF toLowerCase(from.address) = toLowerCase(to.address) THEN <<>>
     ELSE <<PoolIdentifier("BabydogeSwap",
                           <<toLowerCase(from.address), toLowerCase(to.address)>>)>>

\* BabydogeSwap.getPoolIdentifiers(_from, _to, side, blockNumber)
BabydogeSwap_getPoolIdentifiers(_from, _to) ==
  LET from == wrapETH(_from)
      to == wrapETH(_to)
  IN IF toLowerCase(from.address) = toLowerCase(to.address) THEN <<>>
     ELSE <<PoolIdentifier("BabydogeSwap",
                           SortAddresses(toLowerCase(from.address),
                                         toLowerCase(to.address)))>>

CallBabydogeGetPoolIdentifiers ==
  /\ op = "idle"
  /\ \E _from \in Tokens, _to \in Tokens :
       /\ req' = AdapterRequest([_from |-> _from, _to |-> _to])
       /\ returned' = [ids |-> BabydogeSwap_getPoolIdentifiers(_from, _to)]
  /\ op' = "BabydogeSwap.getPoolIdentifiers"
  /\ UNCHANGED <<slots, outOfOrder, aggregate, pricesResult, idsResult, calls, chains>>

\* the key this.pairs is read and written under
PairKey(a, b) == <<a.lower, b.lower>>

\* factory.getPair(token0, token1): the pool contract of the two tokens, the
\* same in either order; the pair of the two highest addresses has none
NULL_ADDRESS == [null_address |-> TRUE]

factory_getPair(token0, token1) ==
  LET lo == IF token0.lower < token1.lower THEN token0.lower ELSE token1.lower
      hi == IF token0.lower < token1.lower THEN token1.lower ELSE token0.lower
  IN IF lo = 2 /\ hi = 3 THEN NULL_ADDRESS ELSE [exchange |-> <<lo, hi>>]

\* BabydogeSwap.findPair(from, to) on the cache this.pairs: the pair returned
\* and the cache afterwards; object tells the pair objects apart
findPair(pairs, from, to) ==
  IF toLowerCase(from.address) = toLowerCase(to.address)
    THEN [pair |-> Null, pairs |-> pairs]
  ELSE LET ordered == IF Below(toLowerCase(from.address), toLowerCase(to.address))
                        THEN <<from, to>> ELSE <<to, from>>
           token0 == ordered[1]
           token1 == ordered[2]
           key == PairKey(toLowerCase(from.address), toLowerCase(token1.address))
       IN IF key \in DOMAIN pairs THEN [pair |-> pairs[key], pairs |-> pairs]
          ELSE LET pair == [token0 |-> token0, token1 |-> token1,
                            exchange |-> factory_getPair(toLowerCase(token0.address),
                                                         toLowerCase(token1.address)),
                            object |-> Cardinality(DOMAIN pairs) + 1]
               IN [pair |-> pair, pairs |-> (key :> pair) @@ pairs]

\* this.pairs = {} of a new adapter
NoPairs == [key \in {} |-> Null]

\* one more findPair call on the adapter, with tokens as getPricesVolume and
\* batchCatchUpPairs pass them
CallFindPair ==
  /\ op \in {"idle", "findPair"}
  /\ \E from \in WrappedTokens, to \in WrappedTokens :
       LET n == IF op = "idle" THEN 0 ELSE req.n
           pairs == IF op = "idle" THEN NoPairs ELSE returned.pairs
       IN /\ n < MaxFindPair
          /\ req' = AdapterRequest([_from |-> from, _to |-> to, n |-> n + 1])
          /\ returned' = findPair(pairs, from, to)
  /\ op' = "findPair"
  /\ UNCHANGED <<slots, outOfOrder, aggregate, pricesResult, idsResult, calls, chains>>

---------------------------------------------------------------------------
(* Pool state by block, BabydogeSwap.getPricesVolume and VirtuSwap *)

MaxBlock == 2

MaxLimitPools == 2

\* const DefaultBabydogeSwapPoolGasCost = 90 * 1000
DefaultBabydogeSwapPoolGasCost == 90 * 1000

\* what an event pool holds: the state and the block it was set at (by setState
\* or by the logs of that block)
Snapshot(state, block) == [state |-> state, block |-> block]

\* pool.getState(blockNumber): the state the pool holds for that block
getState(pool, blockNumber) ==
  IF pool.block <= blockNumber THEN pool.state ELSE Null

\* BabydogeSwapPoolState
PoolState(reserves0, reserves1, feeCode) ==
  [reserves0 |-> reserves0, reserves1 |-> reserves1, feeCode |-> feeCode]

\* the reserves and fee code a pair can have on chain
ChainStates ==
  {PoolState(BigInt(1000000), BigInt(2000000), 30),
   PoolState(BigInt(10), BigInt(2), 0)}

\* this.pairs[key] as findPair returns it: with or without an exchange, with
\* or without an event pool
Pair(exchange, pool) == [exchange |-> exchange, pool |-> pool]

Pairs ==
  {Pair(FALSE, Null), Pair(TRUE, Null)}
    \cup {Pair(TRUE, Snapshot(s, b)) : s \in ChainStates, b \in 1..MaxBlock}

\* getBigIntPow(decimals)
getBigIntPow(decimals) == BigPow(BigInt(10), decimals)

\* BabydogeSwap.batchCatchUpPairs([[from, to]], blockNumber): the pair
\* afterwards, the blocks of the pool states it read, and whether it threw;
\* multicall is what getManyPoolReserves returns, [] after a failed call
batchCatchUpPairs(pair, blockNumber, multicall) ==
  LET same == [pair |-> pair, reads |-> {}, thrown |-> FALSE]
  IN IF blockNumber = 0 THEN same
     ELSE IF ~pair.exchange THEN same
     ELSE IF ~IsNull(pair.pool) /\ ~IsNull(getState(pair.pool, blockNumber))
       THEN [same EXCEPT !.reads = {pair.pool.block}]
     ELSE IF IsNull(pair.pool)
       THEN IF multicall = <<>>
              THEN [same EXCEPT !.thrown = TRUE]
              ELSE [same EXCEPT !.pair.pool = Snapshot(multicall[1], blockNumber)]
     ELSE [same EXCEPT !.pair.pool =
             Snapshot(IF multicall = <<>> THEN Null ELSE multicall[1], blockNumber)]

\* BabydogeSwap.getPairOrderedParams(from, to, blockNumber): the ordered
\* parameters or null, and the block of the pool state it read
getPairOrderedParams(pair, pairReversed, blockNumber) ==
  IF ~(~IsNull(pair.pool) /\ pair.exchange) THEN [params |-> Null, reads |-> {}]
  ELSE LET pairState == getState(pair.pool, blockNumber)
       IN IF IsNull(pairState) THEN [params |-> Null, reads |-> {}]
          ELSE [params |->
                  IF pairReversed
                    THEN PriceParams(pairState.reserves1, pairState.reserves0,
                                     pairState.feeCode)
                    ELSE PriceParams(pairState.reserves0, pairState.reserves1,
                                     pairState.feeCode),
                reads |-> {pair.pool.block}]

\* the tokens quotes are asked for: the native token, its wrapped form and
\* one other token, in either spelling
QuotedTokens == {t \in Tokens : t.address.lower <= 2 /\ (t.address.lower = 0 => ~t.address.checksummed)}

\* what BabydogeSwap.getPricesVolume is called with and finds
BabydogeRequests ==
  [_from : QuotedTokens,
   _to : QuotedTokens,
   limitPools : {"undefined", "has", "lacks"},
   side : {"SELL", "BUY"},
   amounts : {<<BigInt(0), BigInt(1000)>>, <<BigInt(1)>>},
   decimals : {0, 6},
   blockNumber : 0..MaxBlock,
   pair : Pairs,
   multicall : {<<>>} \cup {<<s>> : s \in {PoolState(BigInt(1000000), BigInt(2000000), 30)}}]

\* the try block of BabydogeSwap.getPricesVolume: the quotes or null, the pair
\* afterwards, the ordered parameters used, the blocks of the pool states read,
\* and whether it threw
getPricesVolumeTry(r) ==
  LET none == [result |-> Null, pair |-> r.pair, params |-> Null, reads |-> {},
               thrown |-> FALSE]
      from == wrapETH(r._from)
      to == wrapETH(r._to)
      poolIdentifier ==
        PoolIdentifier("BabydogeSwap",
                       SortAddresses(toLowerCase(from.address), toLowerCase(to.address)))
      pairReversed == Below(toLowerCase(to.address), toLowerCase(from.address))
  IN IF toLowerCase(from.address) = toLowerCase(to.address) THEN none
     ELSE IF r.limitPools = "lacks" THEN none
     ELSE LET caught == batchCatchUpPairs(r.pair, r.blockNumber, r.multicall)
              ordered == getPairOrderedParams(caught.pair, pairReversed, r.blockNumber)
              pairParam == ordered.params
              unitAmount == getBigIntPow(r.decimals)
              after == [none EXCEPT !.pair = caught.pair,
                                    !.reads = caught.reads \cup ordered.reads]
          IN IF caught.thrown THEN [none EXCEPT !.thrown = TRUE]
             ELSE IF IsNull(pairParam) THEN after
             ELSE [after EXCEPT
                     !.params = pairParam,
                     !.result =
                       <<[prices |->
                            [i \in DOMAIN r.amounts |->
                               IF r.side = "BUY"
                                 THEN getBuyPricePath(r.amounts[i], <<pairParam>>).price
                                 ELSE getSellPricePath(r.amounts[i], <<pairParam>>).price],
                          unit |->
                            IF r.side = "BUY"
                              THEN getBuyPricePath(unitAmount, <<pairParam>>).price
                              ELSE getSellPricePath(unitAmount, <<pairParam>>).price,
                          fee |-> pairParam.fee,
                          direction |-> ~pairReversed,
                          poolIdentifier |-> poolIdentifier,
                          gasCost |-> DefaultBabydogeSwapPoolGasCost]>>]

\* what the caller of getPricesVolume gets: the value it resolves to, or a
\* rejection
Outcome(tried, result, rejected) ==
  [result |-> result, pair |-> tried.pair, params |-> tried.params,
   reads |-> tried.reads, rejected |-> rejected]

\* Faulty variant: no catch clause, what the try block throws rejects the call
BabydogeSwap_getPricesVolumeNoCatch(r) ==
  LET tried == getPricesVolumeTry(r)
  IN Outcome(tried, tried.result, tried.thrown)

\* BabydogeSwap.getPricesVolume: try { ... } catch (e) { ...; return null; }
BabydogeSwap_getPricesVolume(r) ==
  LET tried == getPricesVolumeTry(r)
  IN IF tried.thrown THEN Outcome(tried, Null, FALSE)
     ELSE Outcome(tried, tried.result, FALSE)

CallBabydogeGetPricesVolume ==
  /\ op = "idle"
  /\ \E r \in BabydogeRequests :
       /\ req' = AdapterRequest(r)
       /\ returned' = BabydogeSwap_getPricesVolume(r)
  /\ op' = "BabydogeSwap.getPricesVolume"
  /\ UNCHANGED <<slots, outOfOrder, aggregate, pricesResult, idsResult, calls, chains>>

MaxLogs == 2

\* the decoded logs of a pool contract: Sync with its two reserves, and events
\* of other names
PoolEvents ==
  {[name |-> "Sync", reserve0 |-> BigInt(a), reserve1 |-> BigInt(b)] :
     a \in {1, 5}, b \in {1, 5}}
    \cup {[name |-> "Swap"], [name |-> "Mint"]}

\* Faulty variant: the fee code of the pool's constructor replaces the state's
processLogConstructorFee(state, event) ==
  IF event.name = "Sync"
    THEN PoolState(event.reserve0, event.reserve1, 0)
    ELSE Null

\* BabydogeSwapEventPool.processLog(state, log), the log decoded
processLog(state, event) ==
  IF event.name = "Sync"
    THEN PoolState(event.reserve0, event.reserve1, state.feeCode)
    ELSE Null

\* the subscriber's handling of one log: the state processLog returns becomes
\* the pool's state, null leaves the state as it was
AfterLog(state, event) ==
  LET next == processLog(state, event)
  IN IF IsNull(next) THEN state ELSE next

\* a new event pool is given its warm-up state
CallSetState ==
  /\ op = "idle"
  /\ \E state \in ChainStates :
       /\ req' = AdapterRequest([logs |-> 0])
       /\ returned' = [state |-> state, warm |-> state]
  /\ op' = "eventPool"
  /\ UNCHANGED <<slots, outOfOrder, aggregate, pricesResult, idsResult, calls, chains>>

\* the pool receives one more log
OnLog ==
  /\ op = "eventPool"
  /\ req.logs < MaxLogs
  /\ \E event \in PoolEvents :
       /\ req' = AdapterRequest([logs |-> req.logs + 1, event |-> event,
                                 state |-> returned.state])
       /\ returned' = [state |-> AfterLog(returned.state, event),
                       warm |-> returned.warm,
                       processed |-> processLog(returned.state, event)]
  /\ UNCHANGED <<op, slots, outOfOrder, aggregate, pricesResult, idsResult, calls, chains>>

\* SDaiConfig[dexKey][network]: the two addresses of the venue, in checksum case
daiAddress == Address(2, TRUE)
sdaiAddress == Address(3, TRUE)

\* import { SDAI_GAS_COST } from './constants'
SDAI_GAS_COST == "SDAI_GAS_COST"

isSDai(tokenAddress) == toLowerCase(sdaiAddress) = toLowerCase(tokenAddress)

isDai(tokenAddress) == toLowerCase(daiAddress) = toLowerCase(tokenAddress)

\* SDai.isAppropriatePair(srcToken, destToken)
isAppropriatePair(srcToken, destToken) ==
  \/ isDai(srcToken.address) /\ isSDai(destToken.address)
  \/ isDai(destToken.address) /\ isSDai(srcToken.address)

\* SDai.getPoolIdentifiers(srcToken, destToken, side, blockNumber): the
\* addresses enter the identifier as they were given
SDai_getPoolIdentifiers(srcToken, destToken) ==
  IF isAppropriatePair(srcToken, destToken)
    THEN <<PoolIdentifier("SDai", <<srcToken.address, destToken.address>>)>>
    ELSE <<>>

\* what SDai.getPricesVolume is called with
SDaiRequests ==
  [srcToken : Tokens,
   destToken : Tokens,
   amounts : {<<BigInt(0), BigInt(1000)>>, <<BigInt(1)>>},
   side : {"SELL", "BUY"},
   blockNumber : {0, MaxBlock},
   limitPools : {"undefined", "has", "lacks"}]

\* Faulty variant: only DAI to sDAI is quoted
SDai_getPricesVolumeOneWay(r) ==
  IF ~(isDai(r.srcToken.address) /\ isSDai(r.destToken.address)) THEN Null
  ELSE [list |-> <<[prices |-> r.amounts, gasCost |-> [num |-> SDAI_GAS_COST]]>>]

\* SDai.getPricesVolume(srcToken, destToken, amounts, side, blockNumber,
\* limitPools): null, or the list of its one quote
SDai_getPricesVolume(r) ==
  IF ~isAppropriatePair(r.srcToken, r.destToken) THEN Null
  ELSE [list |-> <<[prices |-> r.amounts, gasCost |-> [num |-> SDAI_GAS_COST]]>>]

CallSDaiGetPricesVolume ==
  /\ op = "idle"
  /\ \E r \in SDaiRequests :
       /\ req' = AdapterRequest(r)
       /\ returned' = [result |-> SDai_getPricesVolume(r),
                       ids |-> SDai_getPoolIdentifiers(r.srcToken, r.destToken)]
  /\ op' = "SDai.getPricesVolume"
  /\ UNCHANGED <<slots, outOfOrder, aggregate, pricesResult, idsResult, calls, chains>>

\* the pools VirtuSwap follows: the pool of the pair asked for and the two
\* legs of a virtual pool
PoolAddresses == {"pA", "pJK", "pIK"}

\* this.pools: for every address no event pool (null) or the block its state
\* was set at
PoolMaps == [PoolAddresses -> {Null} \cup {Snapshot([known |-> TRUE], b) : b \in 1..MaxBlock}]

\* this.pools[pool]?.getState(blockNumber) ?? null, with the block of the state
StateAt(pools, pool, blockNumber) ==
  IF IsNull(pools[pool]) THEN Null
  ELSE IF IsNull(getState(pools[pool], blockNumber)) THEN Null
  ELSE [block |-> pools[pool].block]

\* VirtuSwap.getPoolState(pool, blockNumber)
VirtuSwap_getPoolState(pools, pool, blockNumber) ==
  StateAt(pools, pool, blockNumber - 1)

\* pool identifiers: `${dexKey}_${poolAddress}`, `${dexKey}_${jkPair}_${ikPair}`,
\* an identifier of the adapter that splits into another number of parts, and
\* an identifier of another adapter
RealId(pool) == [real |-> pool]

VirtualId(jkPair, ikPair) == [jkPair |-> jkPair, ikPair |-> ikPair]

VirtualIds == {VirtualId("pJK", "pIK"), VirtualId("pIK", "pJK")}

OddId == [odd |-> "VirtuSwap"]

ForeignId == [foreign |-> "BabydogeSwap_pA"]

Identifiers == {RealId("pA"), OddId, ForeignId} \cup VirtualIds

\* getVirtualPools(allPoolsStates, ...): the pairs of legs whose states are both
\* among allPoolsStates
getVirtualPools(withState) ==
  IF {"pJK", "pIK"} \subseteq withState
    THEN <<VirtualId("pJK", "pIK"), VirtualId("pIK", "pJK")>>
    ELSE <<>>

\* VirtuSwap.getPoolIdentifiers: the identifiers and the blocks of the pool
\* states read
VirtuSwap_getPoolIdentifiers(sameToken, pools, blockNumber, getVirtualPoolsThrows) ==
  IF sameToken THEN [ids |-> <<>>, reads |-> {}]
  ELSE LET withState == {p \in PoolAddresses : ~IsNull(StateAt(pools, p, blockNumber))}
           reads == {pools[p].block : p \in withState}
       IN IF getVirtualPoolsThrows
            THEN [ids |-> <<RealId("pA")>>, reads |-> reads]
            ELSE [ids |-> <<RealId("pA")>> \o getVirtualPools(withState),
                  reads |-> reads]

\* the callback of identifiers.map in getPricesVolume: a quote or null; throwing
\* is the set of virtual identifiers getVirtualPool throws for
VirtuSwapQuote(id, pools, blockNumber, throwing) ==
  IF "real" \in DOMAIN id
    THEN LET poolState == VirtuSwap_getPoolState(pools, id.real, blockNumber)
         IN IF IsNull(poolState) THEN Null
            ELSE [poolIdentifier |-> id, isVirtual |-> FALSE,
                  reads |-> {poolState.block}]
  ELSE IF "jkPair" \in DOMAIN id
    THEN LET jkState == VirtuSwap_getPoolState(pools, id.jkPair, blockNumber)
             ikState == VirtuSwap_getPoolState(pools, id.ikPair, blockNumber)
         IN IF IsNull(jkState) THEN Null
            ELSE IF IsNull(ikState) THEN Null
            ELSE IF id \in throwing THEN Null
            ELSE [poolIdentifier |-> id, isVirtual |-> TRUE,
                  reads |-> {jkState.block, ikState.block}]
  ELSE Null

\* what VirtuSwap.getPricesVolume / getPoolIdentifiers are called with and find
LimitPoolLists ==
  {Undef} \cup {[list |-> l] : l \in UNION {[1..n -> Identifiers] : n \in 0..MaxLimitPools}}

VirtuSwapRequests ==
  [sameToken : BOOLEAN,
   blockNumber : 1..MaxBlock,
   pools : PoolMaps,
   limitPools : LimitPoolLists,
   getVirtualPoolsThrows : BOOLEAN,
   throwing : SUBSET VirtualIds]

\* Faulty variant: an error of getVirtualPool is not caught
VirtuSwap_getPricesVolumeHard(r) ==
  IF r.sameToken THEN [result |-> Null, reads |-> {}, listing |-> {}]
  ELSE LET listed == VirtuSwap_getPoolIdentifiers(r.sameToken, r.pools, r.blockNumber,
                                                  r.getVirtualPoolsThrows)
           identifiers ==
             IF ~IsList(r.limitPools) THEN listed.ids
             ELSE SelectSeq(r.limitPools.list, LAMBDA id : "foreign" \notin DOMAIN id)
           mapped == [i \in DOMAIN identifiers |->
                        VirtuSwapQuote(identifiers[i], r.pools, r.blockNumber, {})]
           kept == SelectSeq(mapped, LAMBDA q : ~IsNull(q))
       IN IF \E i \in DOMAIN identifiers : identifiers[i] \in r.throwing
            THEN [rejected |-> "getVirtualPool", reads |-> {}, listing |-> {}]
            ELSE [result |-> kept,
                  reads |-> UNION {kept[i].reads : i \in DOMAIN kept},
                  listing |-> IF ~IsList(r.limitPools) THEN listed.reads ELSE {}]

\* VirtuSwap.getPricesVolume: the quotes or null, the blocks of the states the
\* quotes were made from and of the states read to list the identifiers
VirtuSwap_getPricesVolume(r) ==
  IF r.sameToken THEN [result |-> Null, reads |-> {}, listing |-> {}]
  ELSE LET listed == VirtuSwap_getPoolIdentifiers(r.sameToken, r.pools, r.blockNumber,
                                                  r.getVirtualPoolsThrows)
           identifiers ==
             IF ~IsList(r.limitPools) THEN listed.ids
             ELSE SelectSeq(r.limitPools.list, LAMBDA id : "foreign" \notin DOMAIN id)
           mapped == [i \in DOMAIN identifiers |->
                        VirtuSwapQuote(identifiers[i], r.pools, r.blockNumber, r.throwing)]
           kept == SelectSeq(mapped, LAMBDA q : ~IsNull(q))
       IN [result |-> kept,
           reads |-> UNION {kept[i].reads : i \in DOMAIN kept},
           listing |-> IF ~IsList(r.limitPools) THEN listed.reads ELSE {}]

CallVirtuSwapGetPoolIdentifiers ==
  /\ op = "idle"
  /\ \E r \in VirtuSwapRequests :
       /\ ~IsList(r.limitPools) /\ r.throwing = {}
       /\ req' = AdapterRequest(r)
       /\ returned' = VirtuSwap_getPoolIdentifiers(r.sameToken, r.pools, r.blockNumber,
                                                   r.getVirtualPoolsThrows)
  /\ op' = "VirtuSwap.getPoolIdentifiers"
  /\ UNCHANGED <<slots, outOfOrder, aggregate, pricesResult, idsResult, calls, chains>>

CallVirtuSwapGetPricesVolume ==
  /\ op = "idle"
  /\ \E r \in VirtuSwapRequests :
       /\ IsList(r.limitPools) => ~r.getVirtualPoolsThrows
       /\ req' = AdapterRequest(r)
       /\ returned' = VirtuSwap_getPricesVolume(r)
  /\ op' = "VirtuSwap.getPricesVolume"
  /\ UNCHANGED <<slots, outOfOrder, aggregate, pricesResult, idsResult, calls, chains>>

---------------------------------------------------------------------------
(* VirtuSwap.addPool: concurrent calls on one adapter *)

MaxAddPool == 3

\* a new adapter: this.pools = {}, no event pool constructed, no initialize
\* invoked
NewAdapter ==
  [pools |-> [a \in {} |-> Null],
   constructed |-> [a \in PoolAddresses |-> 0],
   initialize |-> [a \in PoolAddresses |-> 0]]

\* Faulty variant: the entry is not looked at
addPoolUnchecked(adapter, pool) ==
  [adapter |->
     [pools |-> (pool :> [address |-> pool,
                          object |-> adapter.constructed[pool] + 1]) @@ adapter.pools,
      constructed |-> [adapter.constructed EXCEPT ![pool] = @ + 1],
      initialize |-> [adapter.initialize EXCEPT ![pool] = @ + 1]],
   awaiting |-> TRUE]

\* VirtuSwap.addPool(pool, blockNumber) up to its await: the adapter after the
\* check, the construction, the assignment and the invocation of initialize,
\* which all run without yielding, and whether the call then awaits
addPool(adapter, pool) ==
  IF pool \in DOMAIN adapter.pools THEN [adapter |-> adapter, awaiting |-> FALSE]
  ELSE [adapter |->
          [pools |-> (pool :> [address |-> pool,
                               object |-> adapter.constructed[pool] + 1]) @@ adapter.pools,
           constructed |-> [adapter.constructed EXCEPT ![pool] = @ + 1],
           initialize |-> [adapter.initialize EXCEPT ![pool] = @ + 1]],
        awaiting |-> TRUE]

\* addPool is called while earlier calls may still await
CallAddPool ==
  /\ op \in {"idle", "addPool"}
  /\ \E pool \in PoolAddresses :
       LET adapter == IF op = "idle" THEN NewAdapter ELSE returned.adapter
           pending == IF op = "idle" THEN <<>> ELSE returned.pending
           call == addPool(adapter, pool)
       IN /\ Len(pending) < MaxAddPool
          /\ req' = AdapterRequest([pool |-> pool])
          /\ returned' =
               [adapter |-> call.adapter,
                pending |-> Append(pending,
                                   [pool |-> pool,
                                    phase |-> IF call.awaiting THEN "awaiting" ELSE "done"])]
  /\ op' = "addPool"
  /\ UNCHANGED <<slots, outOfOrder, aggregate, pricesResult, idsResult, calls, chains>>

\* the initialize a call awaits settles, fulfilled or rejected: the call ends
\* and this.pools is left as it is
InitializeSettles(k) ==
  /\ op = "addPool"
  /\ k \in DOMAIN returned.pending
  /\ returned.pending[k].phase = "awaiting"
  /\ \E rejected \in BOOLEAN :
       returned' = [returned EXCEPT !.pending[k].phase =
                                      IF rejected THEN "rejected" ELSE "done"]
  /\ UNCHANGED <<op, req, slots, outOfOrder, aggregate, pricesResult, idsResult, calls,
                 chains>>

---------------------------------------------------------------------------
(* optimizeRate: the pipeline of route optimizers *)

MaxOptimizers == 3

\* an UnoptimizedRate is stood for by a number, so that the order in which
\* two transforms are applied can be told from the result
UnoptimizedRates == 0..2

\* the transforms dexAdapterService.routeOptimizers may hold
RouteOptimizers == {"increment", "double", "clear"}

\* fn(acc)
ApplyOptimizer(fn, acc) ==
  CASE fn = "increment" -> acc + 1
    [] fn = "double" -> 2 * acc
    [] fn = "clear" -> 0

RouteOptimizerLists == UNION {[1..n -> RouteOptimizers] : n \in 0..MaxOptimizers}

\* Faulty variant of reduce: the last registered transform is applied first
RECURSIVE reduceRight(_, _, _)
reduceRight(routeOptimizers, i, acc) ==
  IF i < 1 THEN acc
  ELSE reduceRight(routeOptimizers, i - 1, ApplyOptimizer(routeOptimizers[i], acc))

\* Array.prototype.reduce with the callback (acc, fn) => fn(acc), from index i on
RECURSIVE reduce(_, _, _)
reduce(routeOptimizers, i, acc) ==
  IF i > Len(routeOptimizers) THEN acc
  ELSE reduce(routeOptimizers, i + 1, ApplyOptimizer(routeOptimizers[i], acc))

\* Faulty variant: the pipeline is run in the reverse of registration order
optimizeRateReversed(routeOptimizers, ur) ==
  reduceRight(routeOptimizers, Len(routeOptimizers), ur)

\* this.optimizeRate
optimizeRate(routeOptimizers, ur) == reduce(routeOptimizers, 1, ur)

CallOptimizeRate ==
  /\ op = "idle"
  /\ \E routeOptimizers \in RouteOptimizerLists, ur \in UnoptimizedRates :
       /\ req' = [from |-> "DAI", to |-> "DAI", dexKeys |-> <<>>,
                  routeOptimizers |-> routeOptimizers, ur |-> ur]
       /\ returned' = [rate |-> optimizeRate(routeOptimizers, ur)]
  /\ op' = "optimizeRate"
  /\ UNCHANGED <<slots, outOfOrder, aggregate, pricesResult, idsResult, calls, chains>>

---------------------------------------------------------------------------
(* Lifecycle: initialize / releaseResources and their retry chains *)

LifecycleKeys == {"VirtuSwap", "SDai", "Unknown"}

LifeKeyLists == UNION {[1..n -> LifecycleKeys] : n \in 0..MaxKeys}

\* dexInstance.initializePricing / dexInstance.releaseResources are optional
hasInitializePricing(key) == key = "VirtuSwap"
hasReleaseResources(key) == key = "VirtuSwap"

HasMethod(kind, key) ==
  IF kind = "initialize" THEN hasInitializePricing(key) ELSE hasReleaseResources(key)

\* one chain: the initializeDex / releaseDexResources call of one key and the
\* retries that follow it
Chain(kind, key, call, isSlave, cacheStateKey) ==
  [kind |-> kind, key |-> key, call |-> call,
   isSlave |-> isSlave,               \* dexHelper.config.isSlave
   cacheStateKey |-> cacheStateKey,   \* the adapter advertises a cacheStateKey
   phase |-> "new",                   \* "awaiting" | "scheduled" | "done"
   settled |-> FALSE,                 \* the promise Promise.all waits for has settled
   rejected |-> FALSE,                \* ... by rejecting
   invocations |-> 0,                 \* calls of the adapter's method
   failures |-> 0,                    \* how many of them failed
   rawdels |-> 0,                     \* calls of cache.rawdel(cacheStateKey)
   succeeded |-> FALSE]               \* the adapter's method returned normally

\* Faulty variant: the catch block logs and gives up
CatchAndRetryGivesUp(c) == [c EXCEPT !.phase = "done", !.settled = TRUE]

\* the catch block: log, setTimeout(retry, SETUP_RETRY_TIMEOUT)
CatchAndRetry(c) == [c EXCEPT !.phase = "scheduled", !.settled = TRUE]

\* Faulty variant: the cached state is deleted on a replica as well
AttemptRawdelOnReplica(c) ==
  IF getDexByKeyThrows(c.key) THEN CatchAndRetry(c)
  ELSE IF ~HasMethod(c.kind, c.key) THEN [c EXCEPT !.phase = "done", !.settled = TRUE]
  ELSE [c EXCEPT !.phase = "awaiting",
                 !.invocations = @ + 1,
                 !.rawdels = IF c.kind = "initialize" /\ c.cacheStateKey
                               THEN @ + 1 ELSE @]

\* initializeDex / releaseDexResources up to the await of the adapter's method
Attempt(c) ==
  IF getDexByKeyThrows(c.key) THEN CatchAndRetry(c)
  ELSE IF ~HasMethod(c.kind, c.key) THEN [c EXCEPT !.phase = "done", !.settled = TRUE]
  ELSE [c EXCEPT !.phase = "awaiting",
                 !.invocations = @ + 1,
                 !.rawdels = IF c.kind = "initialize" /\ ~c.isSlave /\ c.cacheStateKey
                               THEN @ + 1 ELSE @]

\* the adapter's method returned, or threw / rejected
AfterAwait(c, ok) ==
  IF ok THEN [c EXCEPT !.phase = "done", !.settled = TRUE, !.succeeded = TRUE]
  ELSE CatchAndRetry([c EXCEPT !.failures = @ + 1])

ChainsOf(k) == {n \in DOMAIN chains : chains[n].call = k}

CallLifecycle(kind) ==
  /\ op \in {"idle", "lifecycle"}
  /\ Len(calls) < MaxCalls
  /\ \E dexKeys \in LifeKeyLists, isSlave \in BOOLEAN, cacheStateKey \in BOOLEAN :
       /\ calls # <<>> =>
            (isSlave = calls[1].isSlave /\ cacheStateKey = calls[1].cacheStateKey)
       /\ calls' = Append(calls, [kind |-> kind, dexKeys |-> dexKeys,
                                  isSlave |-> isSlave, cacheStateKey |-> cacheStateKey,
                                  status |-> "pending"])
       /\ chains' = chains \o
                      [i \in 1..Len(dexKeys) |->
                         Attempt(Chain(kind, dexKeys[i], Len(calls) + 1,
                                       isSlave, cacheStateKey))]
  /\ op' = "lifecycle"
  /\ UNCHANGED <<req, slots, outOfOrder, aggregate, pricesResult, idsResult, returned>>

\* initialize(blockNumber, dexKeys)
CallInitialize == CallLifecycle("initialize")

\* releaseResources(dexKeys)
CallReleaseResources == CallLifecycle("release")

\* the adapter's initializePricing / releaseResources settles
AdapterSettles(n) ==
  /\ op = "lifecycle"
  /\ n \in DOMAIN chains
  /\ chains[n].phase = "awaiting"
  /\ \E ok \in BOOLEAN :
       /\ ~ok => chains[n].failures < MaxFailures
       /\ chains' = [chains EXCEPT ![n] = AfterAwait(@, ok)]
  /\ UNCHANGED <<op, req, slots, outOfOrder, aggregate, pricesResult, idsResult,
                 returned, calls>>

\* the SETUP_RETRY_TIMEOUT timer of a chain fires
RetryFires(n) ==
  /\ op = "lifecycle"
  /\ n \in DOMAIN chains
  /\ chains[n].phase = "scheduled"
  /\ chains' = [chains EXCEPT ![n] = Attempt(@)]
  /\ UNCHANGED <<op, req, slots, outOfOrder, aggregate, pricesResult, idsResult,
                 returned, calls>>

\* the continuation after `await Promise.all(...)` of call k
CompleteLifecycle(k) ==
  /\ op = "lifecycle"
  /\ k \in DOMAIN calls
  /\ calls[k].status = "pending"
  /\ \A n \in ChainsOf(k) : chains[n].settled
  /\ calls' = [calls EXCEPT ![k].status =
                 IF \E n \in ChainsOf(k) : chains[n].rejected
                   THEN "rejected" ELSE "resolved"]
  /\ UNCHANGED <<op, req, slots, outOfOrder, aggregate, pricesResult, idsResult,
                 returned, chains>>

MaxChains == MaxCalls * MaxKeys

LifeNext ==
  \/ CallInitialize
  \/ CallReleaseResources
  \/ \E n \in 1..MaxChains : AdapterSettles(n)
  \/ \E n \in 1..MaxChains : RetryFires(n)
  \/ \E k \in 1..MaxCalls : CompleteLifecycle(k)

\* an adapter call in flight settles, a scheduled timer fires, and a
\* continuation whose promises have all settled runs
LifeFairness ==
  /\ \A n \in 1..MaxChains : WF_vars(AdapterSettles(n)) /\ WF_vars(RetryFires(n))
  /\ \A k \in 1..MaxCalls : WF_vars(CompleteLifecycle(k))

LifeSpec == Init /\ [][LifeNext]_vars /\ LifeFairness

\* the adapters' own operations
DexNext ==
  \/ CallGetSellPrice
  \/ CallGetBuyPrice
  \/ CallGetBuyPriceOfSold
  \/ CallGetSellPriceOfBought
  \/ CallGetSellPricePath
  \/ CallGetBuyPricePath
  \/ CallGetSellPricePathAgain
  \/ CallGetBuyPricePathAgain
  \/ CallSDaiGetPricesVolume
  \/ CallSetState
  \/ OnLog
  \/ CallBabydogeGetPoolIdentifiers
  \/ CallFindPair
  \/ CallBabydogeGetPricesVolume
  \/ CallVirtuSwapGetPoolIdentifiers
  \/ CallVirtuSwapGetPricesVolume
  \/ CallAddPool
  \/ \E k \in 1..MaxAddPool : InitializeSettles(k)

DexSpec == Init /\ [][DexNext]_vars

Next ==
  \/ CallGetPoolPrices
  \/ \E i \in DOMAIN slots : SettlePrices(i)
  \/ \E i \in DOMAIN slots : TimerFiresPrices(i)
  \/ \E i \in DOMAIN slots : LateSettle(i)
  \/ CompletePrices
  \/ CallGetPoolIdentifiers
  \/ \E i \in DOMAIN slots : SettleIds(i)
  \/ \E i \in DOMAIN slots : TimerFiresIds(i)
  \/ CompleteIds
  \/ CallGetDexByKey
  \/ CallGetDexsSupportingFeeOnTransfer
  \/ CallOptimizeRate
  \/ DexNext
  \/ LifeNext

Spec == Init /\ [][Next]_vars

---------------------------------------------------------------------------
(* Properties *)

Resolved(o) == op = o /\ aggregate = "resolved"

\* the envelopes of the result that slot i contributed
FromSlot(i) == SelectSeq(pricesResult, LAMBDA p : p.slot = i)

\* the last index of key k in dexKeys: the one whose value the reduce keeps
LastIndex(k) ==
  CHOOSE i \in DOMAIN req.dexKeys :
    req.dexKeys[i] = k /\ \A j \in DOMAIN req.dexKeys : j > i => req.dexKeys[j] # k

AllCallbacksDone ==
  \A i \in DOMAIN slots : slots[i].status \in {"skipped", "settled", "timedout"}

\* C1: the promise returned by getPoolPrices / getPoolIdentifiers never rejects,
\* whatever the adapters of the request do.
C1_NeverRejects == aggregate # "rejected"

\* C2: a getPoolPrices callback whose timer fired first contributes exactly the
\* envelope {dexKey, poolId: "Timeout", prices: null}, before and after the
\* abandoned adapter call settles, and the aggregate can complete as soon as
\* every callback returned, without the abandoned call.
C2_TimeoutEnvelope ==
  op = "prices" =>
    /\ \A i \in DOMAIN slots :
         slots[i].status = "timedout" =>
           LET env == [dexKey |-> req.dexKeys[i], poolId |-> "Timeout",
                       prices |-> Null, slot |-> i, idx |-> 1]
           IN /\ slots[i].dexPoolPrices = <<env>>
              /\ aggregate = "resolved" => FromSlot(i) = <<env>>
    /\ (aggregate = "pending" /\ AllCallbacksDone) => ENABLED CompletePrices

C2_Witness ==
  /\ Resolved("prices")
  /\ \E i \in DOMAIN slots :
       /\ slots[i].status = "timedout" /\ ~slots[i].late
       /\ Len(FromSlot(i)) = 1 /\ FromSlot(i)[1].poolId = "Timeout"

\* C3: an adapter that rejects with an Error of message m contributes exactly
\* {dexKey, poolId: m, prices: null}, and the envelopes with null prices reach
\* the result unaltered, all of them, in their order.
C3_ErrorEnvelope ==
  op = "prices" =>
    /\ \A i \in DOMAIN slots :
         ("rejected" \in DOMAIN slots[i].outcome
            /\ "error" \in DOMAIN slots[i].outcome.rejected) =>
           LET env == [dexKey |-> req.dexKeys[i],
                       poolId |-> slots[i].outcome.rejected.error,
                       prices |-> Null, slot |-> i, idx |-> 1]
           IN /\ slots[i].dexPoolPrices = <<env>>
              /\ aggregate = "resolved" => FromSlot(i) = <<env>>
    /\ aggregate = "resolved" =>
         SelectSeq(pricesResult, LAMBDA p : IsNull(p.prices))
           = SelectSeq(Flat([i \in DOMAIN slots |-> slots[i].dexPoolPrices], 1),
                       LAMBDA p : IsNull(p.prices))

C3_Witness ==
  /\ Resolved("prices")
  /\ \E i \in DOMAIN slots :
       /\ slots[i].outcome = [rejected |-> [error |-> "boom"]]
       /\ \E a \in DOMAIN pricesResult :
            pricesResult[a].slot = i /\ pricesResult[a].poolId = "boom"

\* C4: the result is ordered by the index of the key in dexKeys and then by the
\* position of the pool in the adapter's answer, whatever the order in which the
\* callbacks settled; every envelope of the result is one a callback returned.
C4_Ordered ==
  Resolved("prices") =>
    /\ \A a, b \in DOMAIN pricesResult :
         a < b =>
           \/ pricesResult[a].slot < pricesResult[b].slot
           \/ /\ pricesResult[a].slot = pricesResult[b].slot
              /\ pricesResult[a].idx < pricesResult[b].idx
    /\ \A a \in DOMAIN pricesResult :
         LET p == pricesResult[a]
         IN /\ p.slot \in DOMAIN slots
            /\ p.idx \in DOMAIN slots[p.slot].dexPoolPrices
            /\ slots[p.slot].dexPoolPrices[p.idx] = p
            /\ p.dexKey = req.dexKeys[p.slot]

C4_Witness ==
  /\ Resolved("prices")
  /\ outOfOrder
  /\ \E a, b, c \in DOMAIN pricesResult :
       /\ a < b /\ b < c
       /\ pricesResult[a].slot < pricesResult[b].slot
       /\ pricesResult[b].slot = pricesResult[c].slot
       /\ ~IsNull(pricesResult[b].prices) /\ ~IsNull(pricesResult[c].prices)

\* what the getPoolIdentifiers callback of slot i has to return
ExpectedIds(i) ==
  IF req.dexKeys[i] \notin RegisteredKeys THEN [list |-> <<>>]
  ELSE IF slots[i].status = "timedout" THEN [list |-> <<>>]
  ELSE IF "rejected" \in DOMAIN slots[i].outcome THEN [list |-> <<>>]
  ELSE IF "resolved" \in DOMAIN slots[i].outcome THEN slots[i].outcome.resolved
  ELSE Null

\* C5: the map getPoolIdentifiers returns has an entry for every key of dexKeys:
\* the list the adapter resolved with in time, and [] for an unknown key, a
\* rejected call or a call whose timer fired first (whatever it does later).
C5_EntryForEveryKey ==
  Resolved("identifiers") =>
    /\ DOMAIN idsResult = Range(req.dexKeys)
    /\ \A i \in DOMAIN slots :
         i = LastIndex(req.dexKeys[i]) =>
           /\ idsResult[req.dexKeys[i]] = ExpectedIds(i)
           /\ (~req.filterConstantPricePool
                 \/ ~hasConstantPriceLargeAmounts(req.dexKeys[i]))
                => IsList(idsResult[req.dexKeys[i]])

C5_Witness ==
  /\ Resolved("identifiers")
  /\ \E i, j, k \in DOMAIN slots :
       /\ slots[i].status = "timedout" /\ slots[i].late
       /\ idsResult[req.dexKeys[i]] = [list |-> <<>>]
       /\ "resolved" \in DOMAIN slots[j].outcome
       /\ idsResult[req.dexKeys[j]] = [list |-> <<"p1", "p2">>]

\* C6: with filterConstantPricePool set, a constant-price adapter is not asked
\* and its entry is null; without the flag no entry is null.
C6_ConstantPriceOptOut ==
  op = "identifiers" =>
    /\ \A i \in DOMAIN slots :
         (req.filterConstantPricePool /\ req.dexKeys[i] = "SDai") =>
           /\ ~slots[i].invoked
           /\ aggregate = "resolved" => IsNull(idsResult["SDai"])
    /\ (aggregate = "resolved" /\ ~req.filterConstantPricePool) =>
         \A k \in DOMAIN idsResult : ~IsNull(idsResult[k])

C6_Witness ==
  /\ Resolved("identifiers")
  /\ req.filterConstantPricePool
  /\ \E i, j \in DOMAIN slots :
       /\ req.dexKeys[i] = "SDai" /\ IsNull(idsResult["SDai"])
       /\ req.dexKeys[j] = "BabydogeSwap"
       /\ idsResult["BabydogeSwap"] = [list |-> <<"p1">>]

\* a quote the validation pass has to drop
Rejectable(q, amounts) ==
  \/ Len(q.prices) # Len(amounts)
  \/ /\ "arr" \in DOMAIN q.gasCost
     /\ \/ Len(q.gasCost.arr) # Len(amounts)
        \/ \E i \in 1..Len(amounts) : amounts[i] = 0 /\ q.gasCost.arr[i] # 0
  \/ \A i \in 1..Len(q.prices) : q.prices[i] = 0

C8_SameTokenEmpty ==
  (aggregate = "resolved" /\ SameToken(req)) =>
    /\ op = "prices" => pricesResult = <<>>
    /\ (op = "identifiers" /\ ~req.filterConstantPricePool) =>
         \A k \in Range(req.dexKeys) : idsResult[k] = [list |-> <<>>]

\* C8 (amended): with from == to, getPoolPrices returns no quote: every
\* envelope has null prices, and each invoked adapter has exactly the envelope
\* {dexKey, poolId: "", prices: null}; getPoolIdentifiers (filter flag off)
\* returns [] for every key.
C8_SameTokenNoQuote ==
  (aggregate = "resolved" /\ SameToken(req)) =>
    /\ op = "prices" =>
         /\ \A a \in DOMAIN pricesResult : IsNull(pricesResult[a].prices)
         /\ \A i \in DOMAIN slots :
              slots[i].invoked =>
                FromSlot(i) = <<[dexKey |-> req.dexKeys[i], poolId |-> "",
                                 prices |-> Null, slot |-> i, idx |-> 1]>>
    /\ (op = "identifiers" /\ ~req.filterConstantPricePool) =>
         /\ DOMAIN idsResult = Range(req.dexKeys)
         /\ \A k \in Range(req.dexKeys) : idsResult[k] = [list |-> <<>>]

C8_Witness ==
  /\ Resolved("prices") /\ SameToken(req)
  /\ \E i \in DOMAIN slots :
       /\ slots[i].invoked
       /\ Len(pricesResult) >= 1 /\ Len(FromSlot(i)) = 1
       /\ FromSlot(i)[1].poolId = "" /\ IsNull(FromSlot(i)[1].prices)

\* C9: a registered adapter that is not skipped by an empty limitPools entry and
\* does not support fee on transfer is not asked for prices when srcFee > 0 or
\* srcDexFee > 0: it contributes exactly the diagnostic envelope.
C9_FeeOnTransferGate ==
  op = "prices" =>
    \A i \in DOMAIN slots :
      LET key == req.dexKeys[i]
          lp == LimitPoolsOf(req.limitPoolsMap, key)
          env == [dexKey |-> key,
                  poolId |-> "isSrcTokenTransferFeeToBeExchanged_pool",
                  prices |-> Null, slot |-> i, idx |-> 1]
      IN (/\ key \in RegisteredKeys
          /\ ~(IsList(lp) /\ Len(lp.list) = 0)
          /\ (req.transferFees.srcFee > 0 \/ req.transferFees.srcDexFee > 0)
          /\ ~isFeeOnTransferSupported(key)) =>
           /\ ~slots[i].invoked
           /\ slots[i].dexPoolPrices = <<env>>
           /\ aggregate = "resolved" => FromSlot(i) = <<env>>

C9_Witness ==
  /\ Resolved("prices")
  /\ req.transferFees.srcFee = 0 /\ req.transferFees.srcDexFee > 0
  /\ \E i, j \in DOMAIN slots :
       /\ req.dexKeys[i] = "SDai" /\ ~slots[i].invoked
       /\ Len(FromSlot(i)) = 1
       /\ FromSlot(i)[1].poolId = "isSrcTokenTransferFeeToBeExchanged_pool"
       /\ req.dexKeys[j] = "BabydogeSwap" /\ slots[j].invoked

\* C10: an empty limitPools list for a key means no registry lookup, no adapter
\* call and no envelope for it; with a null map, no entry or a null entry the
\* adapter is asked with limitPools undefined.
C10_LimitPools ==
  op = "prices" =>
    \A i \in DOMAIN slots :
      LET key == req.dexKeys[i]
          m == req.limitPoolsMap
      IN /\ (/\ ~IsNull(m) /\ key \in DOMAIN m.map
             /\ IsList(m.map[key]) /\ Len(m.map[key].list) = 0) =>
              /\ ~slots[i].lookedUp /\ ~slots[i].invoked
              /\ slots[i].dexPoolPrices = <<>>
              /\ aggregate = "resolved" => FromSlot(i) = <<>>
         /\ (IsNull(m) \/ key \notin DOMAIN m.map \/ IsNull(m.map[key])) =>
              /\ slots[i].lookedUp
              /\ slots[i].invoked => slots[i].limitArg = Undef
              /\ (/\ key \in RegisteredKeys
                  /\ ~(/\ (req.transferFees.srcFee > 0
                             \/ req.transferFees.srcDexFee > 0)
                       /\ ~isFeeOnTransferSupported(key))) => slots[i].invoked

C10_Witness ==
  /\ Resolved("prices")
  /\ ~IsNull(req.limitPoolsMap)
  /\ \E i, j \in DOMAIN slots :
       /\ req.dexKeys[i] = "Unknown" /\ slots[i].status = "skipped"
       /\ ~slots[i].lookedUp /\ FromSlot(i) = <<>>
       /\ req.dexKeys[j] = "BabydogeSwap"
       /\ IsNull(req.limitPoolsMap.map["BabydogeSwap"])
       /\ slots[j].invoked /\ slots[j].limitArg = Undef

\* every envelope the callbacks returned, in the order of flat()
Returned == Flat([i \in DOMAIN slots |-> slots[i].dexPoolPrices], 1)

InResult(p) == \E a \in DOMAIN pricesResult : pricesResult[a] = p

\* a quote whose prices or gasCost array does not line up with amounts
BadShape(q, amounts) ==
  \/ Len(q.prices) # Len(amounts)
  \/ /\ "arr" \in DOMAIN q.gasCost
     /\ \/ Len(q.gasCost.arr) # Len(amounts)
        \/ \E i \in 1..Len(amounts) : amounts[i] = 0 /\ q.gasCost.arr[i] # 0

AllZero(q) == \A i \in DOMAIN q.prices : q.prices[i] = 0

\* C11: every quote in the result of getPoolPrices has as many prices as there
\* are amounts and, when its gasCost is an array, as many gas costs, with 0 gas
\* for every amount 0; a quote failing this is dropped, and every other envelope
\* the callbacks returned (null prices, or a well-shaped quote that is not all
\* zero) is in the result as it was returned.
C11_ShapeValidated ==
  Resolved("prices") =>
    /\ \A a \in DOMAIN pricesResult :
         ~IsNull(pricesResult[a].prices) =>
           ~BadShape(pricesResult[a].prices, req.amounts)
    /\ \A b \in DOMAIN Returned :
         LET p == Returned[b]
         IN /\ (~IsNull(p.prices) /\ BadShape(p.prices, req.amounts)) => ~InResult(p)
            /\ (IsNull(p.prices)
                  \/ (~BadShape(p.prices, req.amounts) /\ ~AllZero(p.prices)))
                 => InResult(p)

C11_Witness ==
  /\ Resolved("prices")
  /\ req.amounts = <<0, 1>>
  /\ \E i, k \in DOMAIN slots :
       /\ Len(slots[i].dexPoolPrices) = 4
       /\ Len(FromSlot(i)) = 1 /\ FromSlot(i)[1].poolId = "p4"
       /\ k # i /\ Len(FromSlot(k)) = 2 /\ ~IsNull(FromSlot(k)[1].prices)

\* C12 (as claimed): every quote in the result of getPoolPrices has price 0 and,
\* when its gasCost is an array, gas cost 0 at every index whose amount is 0.
C12_ZeroAmountZeroQuote ==
  Resolved("prices") =>
    \A a \in DOMAIN pricesResult :
      LET q == pricesResult[a].prices
      IN ~IsNull(q) =>
           \A i \in DOMAIN req.amounts :
             req.amounts[i] = 0 =>
               /\ i \in DOMAIN q.prices /\ q.prices[i] = 0
               /\ "arr" \in DOMAIN q.gasCost =>
                    (i \in DOMAIN q.gasCost.arr /\ q.gasCost.arr[i] = 0)

\* C13: no quote in the result of getPoolPrices has all its prices 0: such a
\* quote is dropped, and what every other callback contributes is exactly what it
\* would be without the drop.
C13_NoAllZeroQuote ==
  Resolved("prices") =>
    /\ \A a \in DOMAIN pricesResult :
         ~IsNull(pricesResult[a].prices) => ~AllZero(pricesResult[a].prices)
    /\ \A i \in DOMAIN slots :
         (\E j \in DOMAIN slots[i].dexPoolPrices :
             /\ ~IsNull(slots[i].dexPoolPrices[j].prices)
             /\ AllZero(slots[i].dexPoolPrices[j].prices)) =>
           \A k \in DOMAIN slots :
             k # i =>
               FromSlot(k) =
                 SelectSeq(slots[k].dexPoolPrices,
                           LAMBDA q : IsNull(q.prices)
                                        \/ ~Rejectable(q.prices, req.amounts))

C13_Witness ==
  /\ Resolved("prices")
  /\ \E i, k \in DOMAIN slots :
       /\ Len(slots[i].dexPoolPrices) = 2
       /\ AllZero(slots[i].dexPoolPrices[1].prices)
       /\ Len(FromSlot(i)) = 1 /\ FromSlot(i)[1].idx = 2
       /\ k # i /\ Len(FromSlot(k)) = 2 /\ ~IsNull(FromSlot(k)[2].prices)

\* n is the ceiling of (ratio / RatioDen) * l
IsCeil(n, ratio, l) == n * RatioDen >= ratio * l /\ (n - 1) * RatioDen < ratio * l

\* C14: with a ratio r > 0 every quote a callback resolves with has gasCostL2
\* equal to the gasCost the adapter returned and gasCost raised by
\* ceil(r * getCalldataGasCost), once for two numbers and index by index for two
\* arrays; with ratio 0 the quote is exactly what the adapter returned; the
\* validation pass does not alter what it keeps.
C14_RollupGas ==
  op = "prices" =>
    /\ \A i \in DOMAIN slots :
         (slots[i].status = "settled" /\ "resolved" \in DOMAIN slots[i].outcome) =>
           \A j \in DOMAIN slots[i].dexPoolPrices :
             LET q == slots[i].dexPoolPrices[j].prices
                 r == req.rollupL1ToL2GasRatio
                 l1 == getCalldataGasCost(slots[i].outcome.l1, req.amounts)
             IN ~IsNull(q) =>
                  LET orig == slots[i].outcome.resolved.list[j]
                  IN IF r = 0 THEN q = orig
                     ELSE /\ q.gasCostL2 = orig.gasCost
                          /\ q.prices = orig.prices
                          /\ IF "num" \in DOMAIN orig.gasCost
                               THEN /\ "num" \in DOMAIN q.gasCost
                                    /\ "num" \in DOMAIN l1
                                    /\ IsCeil(q.gasCost.num - orig.gasCost.num, r, l1.num)
                               ELSE /\ "arr" \in DOMAIN q.gasCost
                                    /\ "arr" \in DOMAIN l1
                                    /\ Len(q.gasCost.arr) = Len(orig.gasCost.arr)
                                    /\ \A n \in DOMAIN orig.gasCost.arr :
                                         IsCeil(q.gasCost.arr[n] - orig.gasCost.arr[n],
                                                r, l1.arr[n])
    /\ aggregate = "resolved" =>
         \A a \in DOMAIN pricesResult :
           pricesResult[a].prices =
             slots[pricesResult[a].slot].dexPoolPrices[pricesResult[a].idx].prices

C14_Witness ==
  /\ Resolved("prices")
  /\ req.rollupL1ToL2GasRatio = 30001
  /\ \E a, b \in DOMAIN pricesResult :
       /\ ~IsNull(pricesResult[a].prices) /\ ~IsNull(pricesResult[b].prices)
       /\ pricesResult[a].prices.gasCost = [num |-> 115001]
       /\ pricesResult[a].prices.gasCostL2 = [num |-> 100000]
       /\ pricesResult[b].prices.gasCost = [arr |-> <<115001>>]
       /\ pricesResult[b].prices.gasCostL2 = [arr |-> <<100000>>]

\* gasCost is a number and the calldata cost an array, or the reverse
Mixed(q, l1) == ("num" \in DOMAIN q.gasCost) # ("num" \in DOMAIN l1)

\* slot i: the adapter resolved with a non-empty batch and a ratio is given
Overlaid(i) ==
  /\ "resolved" \in DOMAIN slots[i].outcome
  /\ req.rollupL1ToL2GasRatio > 0
  /\ IsList(slots[i].outcome.resolved)
  /\ Len(slots[i].outcome.resolved.list) > 0

\* slot i contributes one error envelope carrying one of the overlay's messages
OneOverlayError(i) ==
  /\ Len(slots[i].dexPoolPrices) = 1
  /\ slots[i].dexPoolPrices[1].dexKey = req.dexKeys[i]
  /\ IsNull(slots[i].dexPoolPrices[1].prices)
  /\ slots[i].dexPoolPrices[1].poolId
       \in {WrongTypeMessage(req.dexKeys[i]), WrongLengthMessage(req.dexKeys[i])}
  /\ aggregate = "resolved" => FromSlot(i) = slots[i].dexPoolPrices

\* C15: with a ratio, a batch in which one pool has a number for gasCost and an
\* array for the calldata cost (or the reverse) is given up as a whole: the
\* adapter contributes exactly one error envelope with null prices and none of
\* the batch's quotes.
C15_MixedRejectsBatch ==
  op = "prices" =>
    \A i \in DOMAIN slots :
      (/\ Overlaid(i)
       /\ \E j \in DOMAIN slots[i].outcome.resolved.list :
            Mixed(slots[i].outcome.resolved.list[j],
                  getCalldataGasCost(slots[i].outcome.l1, req.amounts)))
        => OneOverlayError(i)

C15_Witness ==
  /\ Resolved("prices")
  /\ \E i \in DOMAIN slots :
       /\ Overlaid(i)
       /\ Len(slots[i].outcome.resolved.list) = 2
       /\ ~Mixed(slots[i].outcome.resolved.list[1],
                 getCalldataGasCost(slots[i].outcome.l1, req.amounts))
       /\ Mixed(slots[i].outcome.resolved.list[2],
                getCalldataGasCost(slots[i].outcome.l1, req.amounts))
       /\ Len(FromSlot(i)) = 1
       /\ FromSlot(i)[1].poolId = WrongTypeMessage(req.dexKeys[i])

\* both gasCost and the calldata cost are arrays
BothArrays(q, l1) == "arr" \in DOMAIN q.gasCost /\ "arr" \in DOMAIN l1

\* C16 (as claimed): with a ratio and two arrays, a length of either that
\* differs from amounts.length turns the adapter's batch into one error envelope.
C16_AnyLengthMismatchIsError ==
  op = "prices" =>
    \A i \in DOMAIN slots :
      LET l1 == getCalldataGasCost(slots[i].outcome.l1, req.amounts)
      IN (/\ Overlaid(i)
          /\ \E j \in DOMAIN slots[i].outcome.resolved.list :
               LET q == slots[i].outcome.resolved.list[j]
               IN /\ BothArrays(q, l1)
                  /\ \/ Len(q.gasCost.arr) # Len(req.amounts)
                     \/ Len(l1.arr) # Len(req.amounts))
           => OneOverlayError(i)

\* C16 (amended): with a ratio and two arrays, only a difference between the two
\* lengths turns the batch into one error envelope; two arrays of the same length
\* are overlaid without an error, whatever amounts.length is, and a quote whose
\* gasCost length differs from amounts.length is then dropped alone by the
\* validation pass, leaving no error envelope.
C16_LengthMismatchBetweenThem ==
  op = "prices" =>
    \A i \in DOMAIN slots :
      LET l1 == getCalldataGasCost(slots[i].outcome.l1, req.amounts)
      IN Overlaid(i) =>
           LET batch == slots[i].outcome.resolved.list
           IN /\ (\E j \in DOMAIN batch :
                     BothArrays(batch[j], l1)
                       /\ Len(batch[j].gasCost.arr) # Len(l1.arr))
                   => OneOverlayError(i)
              /\ (\A j \in DOMAIN batch :
                     BothArrays(batch[j], l1)
                       /\ Len(batch[j].gasCost.arr) = Len(l1.arr))
                   => /\ Len(slots[i].dexPoolPrices) = Len(batch)
                      /\ \A j \in DOMAIN batch :
                           /\ ~IsNull(slots[i].dexPoolPrices[j].prices)
                           /\ (aggregate = "resolved"
                                 /\ Len(batch[j].gasCost.arr) # Len(req.amounts))
                                => ~InResult(slots[i].dexPoolPrices[j])
                      /\ aggregate = "resolved" =>
                           \A a \in DOMAIN FromSlot(i) : ~IsNull(FromSlot(i)[a].prices)

C16_Witness ==
  /\ Resolved("prices")
  /\ \E i, k \in DOMAIN slots :
       /\ Overlaid(i) /\ slots[i].outcome.l1 = "short"
       /\ Len(slots[i].dexPoolPrices) = 1
       /\ ~IsNull(slots[i].dexPoolPrices[1].prices)
       /\ FromSlot(i) = <<>>
       /\ Overlaid(k) /\ slots[k].outcome.l1 = "short"
       /\ Len(FromSlot(k)) = 1
       /\ FromSlot(k)[1].poolId = WrongLengthMessage(req.dexKeys[k])

\* C17 (as claimed): an unregistered key is silently left out: getPoolPrices
\* returns no envelope for it, and initialize / releaseResources schedule no
\* retry for it.
C17_UnknownKeyExcluded ==
  /\ Resolved("prices") =>
       \A a \in DOMAIN pricesResult : pricesResult[a].dexKey \in RegisteredKeys
  /\ \A n \in DOMAIN chains :
       chains[n].key \notin RegisteredKeys => chains[n].phase # "scheduled"

RECURSIVE SupportingFrom(_, _, _)
SupportingFrom(keys, i, inherited) ==
  IF i > Len(keys) THEN <<>>
  ELSE (IF keys[i] = "BabydogeSwap" \/ (keys[i] = "PharaohV1" /\ inherited)
          THEN <<keys[i]>> ELSE <<>>)
       \o SupportingFrom(keys, i + 1, inherited)

\* C19: getDexsSupportingFeeOnTransfer returns the keys of getAllDexKeys whose
\* adapter supports fee on transfer, in that order, leaving out the keys whose
\* lookup fails with the invalid-key error; a lookup failing otherwise makes the
\* call throw that error.
C19_FeeOnTransferKeys ==
  op = "getDexsSupportingFeeOnTransfer" =>
    IF \E i \in DOMAIN req.dexKeys : req.dexKeys[i] = "Faulty"
      THEN returned = [thrown |-> [error |-> "boom"]]
      ELSE returned = [keys |-> SupportingFrom(req.dexKeys, 1, req.inherited)]

C19_Witness ==
  /\ op = "getDexsSupportingFeeOnTransfer"
  /\ req.dexKeys = <<"PharaohV1", "Unknown", "BabydogeSwap">>
  /\ returned = [keys |-> <<"PharaohV1", "BabydogeSwap">>]

\* every call has resolved and every chain of a registered key has finished,
\* those whose adapter has the method after a successful call of it
Quiescent ==
  /\ \A k \in DOMAIN calls : calls[k].status = "resolved"
  /\ \A n \in DOMAIN chains :
       chains[n].key \in RegisteredKeys =>
         /\ chains[n].phase = "done"
         /\ HasMethod(chains[n].kind, chains[n].key) => chains[n].succeeded

\* C20: initialize and releaseResources never reject and always resolve; every
\* failed call of an adapter's initializePricing / releaseResources schedules
\* another attempt, so an adapter that fails finitely often is in the end called
\* successfully, and a chain that has finished schedules nothing more.
C20_RetryUntilSuccess ==
  /\ [](\A k \in DOMAIN calls : calls[k].status # "rejected")
  /\ <>[]Quiescent
  /\ [][\A n \in DOMAIN chains :
          /\ chains'[n].failures > chains[n].failures => chains'[n].phase = "scheduled"
          /\ chains[n].phase = "done" => chains'[n] = chains[n]]_vars

C20_Witness ==
  \E n \in DOMAIN chains :
    /\ chains[n].failures = MaxFailures
    /\ chains[n].invocations = MaxFailures + 1
    /\ chains[n].phase = "done" /\ chains[n].succeeded
    /\ calls[chains[n].call].status = "resolved"

\* the retries of one operation on one adapter key that are pending
PendingRetries(kind, key) ==
  {n \in DOMAIN chains :
     chains[n].kind = kind /\ chains[n].key = key /\ chains[n].phase = "scheduled"}

\* C21 (as claimed): at every moment at most one initialization retry and at
\* most one release retry is pending for an adapter key, also when initialize is
\* called several times or a key occurs more than once in dexKeys.
C21_OneRetryPerKey ==
  \A kind \in {"initialize", "release"}, key \in LifecycleKeys \cap RegisteredKeys :
    Cardinality(PendingRetries(kind, key)) <= 1

\* C22: the lifecycle manager calls cache.rawdel(cacheStateKey) once with every
\* invocation of initializePricing when the process is master and the adapter
\* has a cacheStateKey, and never otherwise: not on a replica, not for an
\* adapter without initializePricing, not when releasing.
C22_RawdelIffMaster ==
  \A n \in DOMAIN chains :
    LET c == chains[n]
    IN /\ c.rawdels = IF c.kind = "initialize" /\ ~c.isSlave /\ c.cacheStateKey
                        THEN c.invocations ELSE 0
       /\ c.isSlave => c.rawdels = 0
       /\ ~hasInitializePricing(c.key) => (c.rawdels = 0 /\ c.invocations = 0)

C22_Witness ==
  \E n, m \in DOMAIN chains :
    /\ chains[n].kind = "initialize" /\ chains[n].key = "VirtuSwap"
    /\ ~chains[n].isSlave /\ chains[n].cacheStateKey
    /\ chains[n].invocations = 2 /\ chains[n].rawdels = 2
    /\ chains[m].kind = "initialize" /\ chains[m].key = "SDai"
    /\ chains[m].phase = "done" /\ chains[m].rawdels = 0

\* f_n(... f_2(f_1(ur)) ...) for the first n transforms of fns
RECURSIVE Composed(_, _, _)
Composed(fns, n, ur) ==
  IF n = 0 THEN ur ELSE ApplyOptimizer(fns[n], Composed(fns, n - 1, ur))

\* C23: optimizeRate(ur) is f_n(... f_2(f_1(ur)) ...) for the registered
\* transforms f_1 .. f_n in registration order, and ur itself when none is
\* registered.
C23_LeftFold ==
  op = "optimizeRate" =>
    /\ returned.rate = Composed(req.routeOptimizers, Len(req.routeOptimizers), req.ur)
    /\ req.routeOptimizers = <<>> => returned.rate = req.ur

C23_Witness ==
  /\ op = "optimizeRate"
  /\ req.routeOptimizers = <<"increment", "double">> /\ req.ur = 1
  /\ returned.rate = 4

\* 2^112 - 1 = 5192296858534827628530496329220095, written out in limbs
TwoTo112Minus1 ==
  [neg |-> FALSE, mag |-> <<95, 2922, 4963, 8530, 2762, 5348, 6858, 9229, 51>>]

\* q = floor(n / d) for n >= 0n and d > 0n
IsFloor(q, n, d) ==
  /\ ~q.neg
  /\ BigCmp(BigMul(q, d), n) <= 0
  /\ BigCmp(n, BigMul(BigAdd(q, BigOne), d)) < 0

\* C24: getSellPrice(x) is floor(x (F - fee) r_out / (r_in F + x (F - fee)))
\* with F = 10000, 0 when that denominator is 0, and 0 whenever
\* r_in + x > 2^112 - 1, for non-negative x, r_in, r_out and fee in [0, F].
C24_SellPrice ==
  op = "getSellPrice" =>
    LET rin == req.priceParams.reservesIn
        rout == req.priceParams.reservesOut
        x == req.amount
        g == BigInt(10000 - req.priceParams.fee)
        n == BigMul(BigMul(x, g), rout)
        d == BigAdd(BigMul(rin, BigInt(10000)), BigMul(x, g))
    IN IF BigCmp(BigAdd(rin, x), TwoTo112Minus1) > 0 THEN returned.price = BigZero
       ELSE IF d = BigZero THEN returned.price = BigZero
       ELSE IsFloor(returned.price, n, d)

C24_Witness ==
  /\ op = "getSellPrice"
  /\ req.priceParams = PriceParams(BigInt(1000000), BigInt(2000000), 30)
  /\ req.amount = BigInt(1000)
  /\ returned.price = BigInt(1992)

\* C25: getBuyPrice(y) is 1 + floor(r_in y F / ((F - fee) (r_out - y))), and 0
\* when that denominator is <= 0 (y >= r_out or fee >= F) or the numerator is 0
\* (y = 0 or r_in = 0).
C25_BuyPrice ==
  op = "getBuyPrice" =>
    LET rin == req.priceParams.reservesIn
        rout == req.priceParams.reservesOut
        y == req.amount
        n == BigMul(BigMul(rin, y), BigInt(10000))
        d == BigMul(BigInt(10000 - req.priceParams.fee), BigSub(rout, y))
    IN /\ IF BigCmp(d, BigZero) <= 0 THEN returned.price = BigZero
          ELSE IF n = BigZero THEN returned.price = BigZero
          ELSE IsFloor(BigSub(returned.price, BigOne), n, d)
       /\ (BigCmp(y, rout) >= 0 \/ req.priceParams.fee >= 10000)
            => returned.price = BigZero
       /\ (y = BigZero \/ rin = BigZero) => returned.price = BigZero

C25_Witness ==
  /\ op = "getBuyPrice"
  /\ req.priceParams = PriceParams(BigInt(1000000), BigInt(2000000), 30)
  /\ req.amount = BigInt(1000)
  /\ returned.price = BigInt(502)

\* reserves, fee and amount for which the round trip is claimed
ValidPool(priceParams) ==
  /\ BigCmp(priceParams.reservesIn, BigZero) > 0
  /\ BigCmp(priceParams.reservesOut, BigZero) > 0
  /\ priceParams.fee < feeFactor

\* C26 (as claimed): getBuyPrice(getSellPrice(x)) >= x on the same pool, for
\* positive reserves, fee in [0, F) and x > 0 with x + r_in <= 2^112 - 1.
C26_BuyOfSoldAtLeast ==
  (/\ op = "buyOfSold"
   /\ ValidPool(req.priceParams)
   /\ BigCmp(req.amount, BigZero) > 0
   /\ BigCmp(BigAdd(req.priceParams.reservesIn, req.amount), TwoTo112Minus1) <= 0)
    => BigCmp(returned.price, req.amount) >= 0

\* C26 (amended): on a pool with positive reserves and fee in [0, F), for x > 0
\* with x + r_in <= 2^112 - 1, getBuyPrice(getSellPrice(x)) is at most x + 1,
\* and is 0 when getSellPrice(x) is 0; it is the other composition that never
\* loses: getSellPrice(getBuyPrice(y)) >= y for 0 < y < r_out when
\* getBuyPrice(y) + r_in <= 2^112 - 1.
C26_RoundTrip ==
  /\ (/\ op = "buyOfSold"
      /\ ValidPool(req.priceParams)
      /\ BigCmp(req.amount, BigZero) > 0
      /\ BigCmp(BigAdd(req.priceParams.reservesIn, req.amount), TwoTo112Minus1) <= 0)
       => /\ BigCmp(returned.price, BigAdd(req.amount, BigOne)) <= 0
          /\ returned.sold = BigZero => returned.price = BigZero
  /\ (/\ op = "sellOfBought"
      /\ ValidPool(req.priceParams)
      /\ BigCmp(req.amount, BigZero) > 0
      /\ BigCmp(req.amount, req.priceParams.reservesOut) < 0
      /\ BigCmp(BigAdd(req.priceParams.reservesIn, returned.bought),
                TwoTo112Minus1) <= 0)
       => BigCmp(returned.price, req.amount) >= 0

C26_Witness ==
  /\ op = "buyOfSold"
  /\ req.priceParams = PriceParams(BigInt(10), BigInt(2), 0)
  /\ req.amount = BigInt(15)
  /\ returned.sold = BigOne
  /\ returned.price = BigInt(11)

\* getSellPrice(p_n, ... getSellPrice(p_1, a)) for the first n pools of params
RECURSIVE SellNested(_, _, _)
SellNested(params, n, a) ==
  IF n = 0 THEN a ELSE getSellPrice(params[n], SellNested(params, n - 1, a))

\* getBuyPrice(p_i, ... getBuyPrice(p_n, a)) for the pools of params from i on
RECURSIVE BuyNested(_, _, _)
BuyNested(params, i, a) ==
  IF i > Len(params) THEN a ELSE getBuyPrice(params[i], BuyNested(params, i + 1, a))

\* C29: getSellPricePath(a, [p1..pn]) is getSellPrice(pn, ... getSellPrice(p1, a))
\* and getBuyPricePath(a, [p1..pn]) is getBuyPrice(p1, ... getBuyPrice(pn, a)),
\* for every path of one pool or more.
C29_PathComposition ==
  /\ op = "getSellPricePath" =>
       returned.price = SellNested(req.params, Len(req.params), req.amount)
  /\ op = "getBuyPricePath" =>
       returned.price = BuyNested(req.params, 1, req.amount)

C29_Witness ==
  /\ op = "getBuyPricePath"
  /\ req.params = <<PriceParams(BigInt(1000), BigInt(2000), 30),
                    PriceParams(BigInt(500), BigInt(100), 0),
                    PriceParams(BigInt(40), BigInt(70), 100)>>
  /\ req.amount = BigInt(10)
  /\ returned.price = BigInt(20)

\* the Number a small non-negative bigint stands for
RECURSIVE AsNumber(_)
AsNumber(mag) == IF mag = <<>> THEN 0 ELSE mag[1] + LimbBase * AsNumber(Tail(mag))

\* scenario S2: reserves (1000000, 2000000), fee 30, SELL amounts [0, 1000],
\* one unit of input being 1
ScenarioS2 ==
  /\ op = "BabydogeSwap.getPricesVolume"
  /\ req.side = "SELL" /\ req.amounts = <<BigInt(0), BigInt(1000)>> /\ req.decimals = 0
  /\ returned.params = PriceParams(BigInt(1000000), BigInt(2000000), 30)

\* the quote of the answer as the validation pass of getPoolPrices sees it
SurvivesValidation ==
  LET q == returned.result[1]
      prices == [i \in DOMAIN q.prices |-> AsNumber(q.prices[i].mag)]
      amounts == [i \in DOMAIN req.amounts |-> AsNumber(req.amounts[i].mag)]
  IN PassesValidation([prices |-> Quote("BabydogeSwap_pool", TRUE, prices,
                                        [num |-> q.gasCost])], amounts)

\* C27 (as claimed): in scenario S2 the prices of the quote are [0, 1993], the
\* quote for one unit of input is 1, and the quote survives validation.
C27_ScenarioS2_1993 ==
  ScenarioS2 =>
    /\ Len(returned.result) = 1
    /\ returned.result[1].prices = <<BigInt(0), BigInt(1993)>>
    /\ returned.result[1].unit = BigInt(1)
    /\ SurvivesValidation

\* C27 (amended): in scenario S2 the prices of the quote are [0, 1992], the
\* quote for one unit of input is 1, and the quote survives validation.
C27_ScenarioS2 ==
  ScenarioS2 =>
    /\ Len(returned.result) = 1
    /\ returned.result[1].prices = <<BigInt(0), BigInt(1992)>>
    /\ returned.result[1].unit = BigInt(1)
    /\ SurvivesValidation

C27_Witness ==
  /\ ScenarioS2
  /\ IsNull(req.pair.pool) /\ req.blockNumber = 1
  /\ returned.result[1].prices = <<BigInt(0), BigInt(1992)>>
  /\ returned.result[1].unit = BigInt(1)
  /\ returned.result[1].gasCost = 90000

\* C28 (as claimed): every pool state an adapter reads while pricing or listing
\* identifiers at block N was set strictly before N: by VirtuSwap.getPoolState,
\* by VirtuSwap.getPoolIdentifiers, and by BabydogeSwap.getPairOrderedParams
\* after batchCatchUpPairs.
C28_ReadsBeforeBlock ==
  /\ op = "VirtuSwap.getPricesVolume" =>
       \A b \in returned.reads \cup returned.listing : b < req.blockNumber
  /\ op = "VirtuSwap.getPoolIdentifiers" =>
       \A b \in returned.reads : b < req.blockNumber
  /\ op = "BabydogeSwap.getPricesVolume" =>
       \A b \in returned.reads : b < req.blockNumber

\* an identifier VirtuSwap can make a quote for at the block of the request
Priceable(id) ==
  LET known(pool) == /\ ~IsNull(req.pools[pool])
                     /\ req.pools[pool].block <= req.blockNumber - 1
  IN IF "real" \in DOMAIN id THEN known(id.real)
     ELSE IF "jkPair" \in DOMAIN id
       THEN known(id.jkPair) /\ known(id.ikPair) /\ id \notin req.throwing
     ELSE FALSE

\* the identifiers of ids[i..] that can be priced, in their order
RECURSIVE PriceableFrom(_, _)
PriceableFrom(ids, i) ==
  IF i > Len(ids) THEN <<>>
  ELSE (IF Priceable(ids[i]) THEN <<ids[i]>> ELSE <<>>) \o PriceableFrom(ids, i + 1)

\* the identifiers getPricesVolume goes through
AskedIdentifiers ==
  IF IsList(req.limitPools)
    THEN SelectSeq(req.limitPools.list, LAMBDA id : id # ForeignId)
  ELSE IF req.getVirtualPoolsThrows THEN <<RealId("pA")>>
  ELSE <<RealId("pA")>>
         \o (IF \A p \in {"pJK", "pIK"} :
                   ~IsNull(req.pools[p]) /\ req.pools[p].block <= req.blockNumber
                THEN <<VirtualId("pJK", "pIK"), VirtualId("pIK", "pJK")>>
                ELSE <<>>)

\* C30: a virtual pool that cannot be computed is a soft error in VirtuSwap:
\* getPricesVolume leaves out the identifiers whose getVirtualPool throws or
\* whose state is missing and returns the quotes of all others in their order;
\* getPoolIdentifiers returns the real-pool identifier alone when
\* getVirtualPools throws; neither call rejects.
C30_SoftVirtualPoolError ==
  /\ (op = "VirtuSwap.getPricesVolume" /\ ~req.sameToken) =>
       /\ "result" \in DOMAIN returned
       /\ [i \in DOMAIN returned.result |-> returned.result[i].poolIdentifier]
            = PriceableFrom(AskedIdentifiers, 1)
  /\ (op = "VirtuSwap.getPoolIdentifiers" /\ ~req.sameToken
        /\ req.getVirtualPoolsThrows) =>
       returned.ids = <<RealId("pA")>>

C30_Witness ==
  /\ op = "VirtuSwap.getPricesVolume"
  /\ ~req.sameToken /\ ~IsList(req.limitPools)
  /\ req.throwing = {VirtualId("pJK", "pIK")}
  /\ Len(returned.result) = 2
  /\ returned.result[1].poolIdentifier = RealId("pA")
  /\ returned.result[2].poolIdentifier = VirtualId("pIK", "pJK")

\* C40 (as claimed): getBuyPricePath and getSellPricePath leave the params list
\* they are given unchanged, so a second call with the same amount and the same
\* list returns the price of the first.
C40_ParamsUnchanged ==
  /\ op \in {"getBuyPricePath", "getSellPricePath"} => returned.params = req.params
  /\ op \in {"getBuyPricePath again", "getSellPricePath again"} =>
       returned.price = returned.first

\* the lowercase addresses of a set of tokens
LowerAddresses(tokens) == {toLowerCase(t.address) : t \in tokens}

\* C36 (as claimed): after any sequence of findPair calls, findPair(from, to)
\* with different addresses returns a pair whose tokens are from and to with
\* token0 below token1, and the cache holds one pair object per token set, so
\* that both directions get the same object and a pool contract has one pair.
C36_OnePairPerPool ==
  op = "findPair" =>
    /\ ~IsNull(returned.pair) =>
         /\ LowerAddresses({returned.pair.token0, returned.pair.token1})
              = LowerAddresses({req._from, req._to})
         /\ Below(returned.pair.token0.address, returned.pair.token1.address)
    /\ \A k1 \in DOMAIN returned.pairs, k2 \in DOMAIN returned.pairs :
         LET p1 == returned.pairs[k1]
             p2 == returned.pairs[k2]
         IN LowerAddresses({p1.token0, p1.token1}) = LowerAddresses({p2.token0, p2.token1})
              => p1.object = p2.object

\* the number of the lowercase address a token is priced under
PricedUnder(token) == IF token.address.lower = 0 THEN 1 ELSE token.address.lower

\* <dexKey>_<lower address>_<higher address> of two tokens, or nothing when
\* they wrap to the same address
StableIdentifier(a, b) ==
  LET x == PricedUnder(a)
      y == PricedUnder(b)
  IN IF x = y THEN <<>>
     ELSE <<[dexKey |-> "BabydogeSwap",
             tokens |-> <<Address(IF x < y THEN x ELSE y, FALSE),
                          Address(IF x < y THEN y ELSE x, FALSE)>>]>>

\* C31: BabydogeSwap.getPoolIdentifiers(from, to) is the single identifier
\* <dexKey>_<lower address>_<higher address> in lowercase, or [] when from and
\* to wrap to the same address; it is the same for (to, from) and for every
\* letter case of the two addresses, and the quote of getPricesVolume for the
\* pair carries exactly this identifier.
C31_StablePoolIdentifier ==
  /\ op = "BabydogeSwap.getPoolIdentifiers" =>
       /\ returned.ids = StableIdentifier(req._from, req._to)
       /\ returned.ids = BabydogeSwap_getPoolIdentifiers(req._to, req._from)
       /\ \A a \in Tokens, b \in Tokens :
            (toLowerCase(a.address) = toLowerCase(req._from.address)
               /\ toLowerCase(b.address) = toLowerCase(req._to.address))
              => BabydogeSwap_getPoolIdentifiers(a, b) = returned.ids
  /\ (op = "BabydogeSwap.getPricesVolume" /\ ~IsNull(returned.params)) =>
       /\ <<returned.result[1].poolIdentifier>>
            = BabydogeSwap_getPoolIdentifiers(req._from, req._to)
       /\ <<returned.result[1].poolIdentifier>> = StableIdentifier(req._from, req._to)

C31_Witness ==
  /\ op = "BabydogeSwap.getPricesVolume"
  /\ ~IsNull(returned.params)
  /\ req._from = Token(Address(2, TRUE))
  /\ req._to = Token(ETHER_ADDRESS)
  /\ returned.result[1].poolIdentifier.tokens = <<Address(1, FALSE), Address(2, FALSE)>>
  /\ BabydogeSwap_getPoolIdentifiers(req._to, req._from)
       = <<returned.result[1].poolIdentifier>>

\* the cases in which BabydogeSwap.getPricesVolume has nothing to quote: the
\* tokens wrap to one address, the identifier is not among limitPools, the pair
\* has no exchange, blockNumber is 0, or the pool has no state at the block and
\* the reserves multicall failed
NothingToQuote ==
  \/ PricedUnder(req._from) = PricedUnder(req._to)
  \/ req.limitPools = "lacks"
  \/ ~req.pair.exchange
  \/ req.blockNumber = 0
  \/ /\ req.multicall = <<>>
     /\ IsNull(req.pair.pool) \/ req.pair.pool.block > req.blockNumber

\* C33: BabydogeSwap.getPricesVolume never rejects; it resolves to null when
\* there is nothing to quote or an internal step throws, and otherwise to
\* exactly one quote with as many prices as amounts.
C33_NullOrOneQuote ==
  op = "BabydogeSwap.getPricesVolume" =>
    /\ ~returned.rejected
    /\ NothingToQuote => IsNull(returned.result)
    /\ ~NothingToQuote =>
         /\ Len(returned.result) = 1
         /\ Len(returned.result[1].prices) = Len(req.amounts)

C33_Witness ==
  /\ op = "BabydogeSwap.getPricesVolume"
  /\ PricedUnder(req._from) # PricedUnder(req._to)
  /\ req.limitPools = "has" /\ req.blockNumber = 1
  /\ req.pair.exchange /\ IsNull(req.pair.pool) /\ req.multicall = <<>>
  /\ IsNull(returned.result) /\ ~returned.rejected

\* C32: processLog on a Sync event yields the event's two reserves with the
\* fee code of the previous state, on any other event it yields null, and
\* after any sequence of logs the pool's fee code is that of its warm-up state.
C32_SyncKeepsFeeCode ==
  (op = "eventPool" /\ req.logs > 0) =>
    /\ req.event.name = "Sync" =>
         /\ returned.processed.reserves0 = req.event.reserve0
         /\ returned.processed.reserves1 = req.event.reserve1
         /\ returned.processed.feeCode = req.state.feeCode
    /\ req.event.name # "Sync" =>
         /\ IsNull(returned.processed)
         /\ returned.state = req.state
    /\ returned.state.feeCode = returned.warm.feeCode

C32_Witness ==
  /\ op = "eventPool" /\ req.logs = 2
  /\ req.event.name = "Swap"
  /\ returned.warm = PoolState(BigInt(1000000), BigInt(2000000), 30)
  /\ returned.state = PoolState(BigInt(5), BigInt(1), 30)

\* C34: a zero amount is quoted zero: getSellPrice(params, 0) and
\* getBuyPrice(params, 0) are 0 for all reserves and fees, and in the quotes of
\* SDai and BabydogeSwap prices[i] is 0 wherever amounts[i] is 0.
C34_ZeroAmountZeroPrice ==
  /\ (op \in {"getSellPrice", "getBuyPrice"} /\ req.amount = BigZero) =>
       returned.price = BigZero
  /\ (op = "SDai.getPricesVolume" /\ ~IsNull(returned.result)) =>
       \A i \in DOMAIN req.amounts :
         req.amounts[i] = BigZero => returned.result.list[1].prices[i] = BigZero
  /\ (op = "BabydogeSwap.getPricesVolume" /\ ~NothingToQuote) =>
       \A i \in DOMAIN req.amounts :
         req.amounts[i] = BigZero => returned.result[1].prices[i] = BigZero

C34_Witness ==
  /\ op = "getBuyPrice" /\ req.amount = BigZero
  /\ req.priceParams = PriceParams(BigInt(1000000), BigInt(2000000), 30)
  /\ returned.price = BigZero

\* {src, dest} is {DAI, sDAI}, whatever the letter case
IsDaiSDaiPair ==
  {req.srcToken.address.lower, req.destToken.address.lower}
    = {daiAddress.lower, sdaiAddress.lower}

\* C35: SDai.getPricesVolume returns a non-null result exactly when
\* getPoolIdentifiers returns a non-empty list, exactly when {src, dest} is
\* {DAI, sDAI} in either direction and any letter case; the result is then one
\* quote with prices equal to amounts and a scalar gasCost, whatever side,
\* block and limitPools are.
C35_ConstantPrice ==
  op = "SDai.getPricesVolume" =>
    /\ ~IsNull(returned.result) <=> returned.ids # <<>>
    /\ ~IsNull(returned.result) <=> IsDaiSDaiPair
    /\ ~IsNull(returned.result) =>
         /\ Len(returned.result.list) = 1
         /\ returned.result.list[1].prices = req.amounts
         /\ "num" \in DOMAIN returned.result.list[1].gasCost

C35_Witness ==
  /\ op = "SDai.getPricesVolume"
  /\ req.srcToken = Token(Address(3, FALSE)) /\ req.destToken = Token(Address(2, TRUE))
  /\ req.side = "BUY" /\ req.limitPools = "lacks" /\ req.blockNumber = 0
  /\ returned.result.list[1].prices = <<BigInt(0), BigInt(1000)>>
  /\ Len(returned.ids) = 1

\* the addresses addPool has been called for
AddedPools == {returned.pending[k].pool : k \in DOMAIN returned.pending}

\* C37: under any interleaving of concurrent addPool calls, for every address
\* exactly one event pool is constructed and initialize is invoked on it exactly
\* once, and the entry of the pools map stays the pool constructed first.
C37_OnePoolPerAddress ==
  op = "addPool" =>
    \A pool \in AddedPools :
      /\ returned.adapter.constructed[pool] = 1
      /\ returned.adapter.initialize[pool] = 1
      /\ pool \in DOMAIN returned.adapter.pools
      /\ returned.adapter.pools[pool] = [address |-> pool, object |-> 1]

C37_Witness ==
  /\ op = "addPool"
  /\ Len(returned.pending) = 3
  /\ \A k \in 1..3 : returned.pending[k].pool = "pA"
  /\ returned.pending[1].phase = "awaiting"
  /\ returned.pending[2].phase = "done"
  /\ returned.pending[3].phase = "done"
  /\ returned.adapter.constructed["pA"] = 1
  /\ returned.adapter.initialize["pA"] = 1

\* C38 (as claimed): once releaseResources has released an adapter, no retry
\* of an initialize call made before that release invokes initializePricing on
\* the adapter again.
C38_NoInitializeAfterRelease ==
  [][\A n \in DOMAIN chains, m \in DOMAIN chains :
       (/\ chains[n].kind = "initialize" /\ chains[m].kind = "release"
        /\ chains[n].key = chains[m].key
        /\ chains[n].call < chains[m].call
        /\ chains[m].succeeded)
         => chains'[n].invocations = chains[n].invocations]_vars

\* the calldata cost has the kind and the length of the quote's gasCost
WellShaped(q, l1) ==
  \/ "num" \in DOMAIN q.gasCost /\ "num" \in DOMAIN l1
  \/ /\ "arr" \in DOMAIN q.gasCost /\ "arr" \in DOMAIN l1
     /\ Len(q.gasCost.arr) = Len(l1.arr)

\* C39 (as claimed): with a ratio r > 0 and a calldata cost of the kind and
\* length of every quote's gasCost, each quote of an adapter that the same
\* request without a ratio returns is in the result as well, with the same
\* content but for gasCost and gasCostL2.
C39_RatioKeepsQuotes ==
  (Resolved("prices") /\ req.rollupL1ToL2GasRatio > 0) =>
    \A i \in DOMAIN slots :
      (slots[i].status = "settled" /\ "resolved" \in DOMAIN slots[i].outcome) =>
        LET l1 == getCalldataGasCost(slots[i].outcome.l1, req.amounts)
            without == toImprovedPoolPrices(req.dexKeys[i], slots[i].outcome.resolved, i)
        IN (\A j \in DOMAIN without :
              ~IsNull(without[j].prices) => WellShaped(without[j].prices, l1))
             => \A j \in DOMAIN without :
                  (~IsNull(without[j].prices) /\ PassesValidation(without[j], req.amounts))
                    => \E a \in DOMAIN pricesResult :
                         /\ pricesResult[a].slot = i /\ pricesResult[a].idx = j
                         /\ pricesResult[a].prices =
                              [without[j].prices EXCEPT
                                 !.gasCost = pricesResult[a].prices.gasCost,
                                 !.gasCostL2 = pricesResult[a].prices.gasCostL2]

====
